---------------------------- MODULE Spec2Model ----------------------------
(***************************************************************************)
(* A model of the amd-efs crate: the ValueOrLocation address-mode codec    *)
(* (ondisk.rs), the Embedded Firmware Structure probe and creation         *)
(* (efs.rs, Efs) and the directory engine (efs.rs, Directory) on top of a  *)
(* block-erasable flash.                                                   *)
(*                                                                         *)
(* Number representation.  TLC's integers are 32-bit signed, so a u32 that *)
(* may have bit 31 set is kept as a pair <<hi, lo>> of 16-bit halves and a *)
(* u64 as a tuple <<w3, w2, w1, w0>> of 16-bit words, most significant     *)
(* first.  Flash locations stay plain integers (all are below 2^31).       *)
(***************************************************************************)
EXTENDS Integers, Sequences, FiniteSets, TLC

VARIABLES
    vl,        \* the ValueOrLocation codec harness: input, encoded and decoded value
    gc,        \* the generation-compatibility harness: an Efh word, a generation, the answer
    efsFlash,  \* the Efh record held by the flash at each candidate position
    efsOp,     \* the Efs operation that has just returned, with its result
    external,  \* whether something other than Efs::create has written the image
    flash,     \* the flash under the directory engine: per erasable block, its 16-bit words
    dir,       \* the Directory handle held by the caller (location, mode, header, headers size)
    added,     \* history: the entries handed to the directory so far, as they were to be stored
    dirOp,     \* the directory operation that has just returned, with its result
    ls,        \* the location_of_source harness: a directory, a source, the answer
    el,        \* the ErasableLocation and ErasableRange held by a caller, and its last call
    ua,        \* the last access through Upper16MiBFlashAdapter and where it reached the flash
    efs,       \* the Efs handle held by the caller that creates directories
    call,      \* the last call on that handle: its arguments, its result, the state before it
    ck,        \* a Fletcher<Wu32> checksummer: the words fed to it, its two sums
    bf,        \* a bitfield word of ondisk.rs held by a caller, and the last accessor called on it
    wr         \* an erase_and_write_blocks call in progress on a flash that may fail

efsVars == <<efsFlash, efsOp, external>>

dirVars == <<flash, dir, added, dirOp>>

\* the harnesses of the single operations
unitVars == <<ck, bf, wr>>

harnessVars == <<ls, el, ua, efs, call, unitVars>>

vars == <<vl, gc, efsFlash, efsOp, external, flash, dir, added, dirOp, ls, el, ua, efs, call, ck, bf, wr>>

---------------------------------------------------------------------------
(* Results: Ok(value) or Err(error).                                       *)

Ok(x) == [ok |-> TRUE, val |-> x]

Err(e) == [ok |-> FALSE, err |-> e]

\* Option: None or Some(value)
None == [some |-> FALSE]

Some(x) == [some |-> TRUE, val |-> x]

\* a Rust let: e is computed once and Body gets its value
Bind(e, Body(_)) == CHOOSE r \in {Body(v) : v \in {e}} : TRUE

---------------------------------------------------------------------------
(* 16-bit words.                                                           *)

\* bit k (0..15) of the 16-bit word w
Bit(w, k) == (w \div (2^k)) % 2

---------------------------------------------------------------------------
(* ondisk.rs: AddressMode and ValueOrLocation                              *)

AddressModes ==
    <<"PhysicalAddress", "EfsRelativeOffset", "DirectoryRelativeOffset",
      "OtherDirectoryRelativeOffset">>

\* AddressMode::from_u64 on the two-bit field 0..3
AddressModeFromBits(n) == AddressModes[n + 1]

WEAK_ADDRESS_MODE == "DirectoryRelativeOffset"

effective_address_mode(directory_address_mode, entry_address_mode) ==
    IF directory_address_mode = WEAK_ADDRESS_MODE
    THEN entry_address_mode
    ELSE directory_address_mode

is_entry_address_mode_effective(directory_address_mode, entry_address_mode) ==
    effective_address_mode(directory_address_mode, entry_address_mode)
        = entry_address_mode

\* A ValueOrLocation: Value carries a u64, every other variant a u32.
VOL(tag, payload) == [tag |-> tag, payload |-> payload]

\* A plausible slip: the two mode bits are not masked off before the
\* conversion to u32.
new_from_raw_location_unmasked(directory_address_mode, source) ==
    LET entry_address_mode == AddressModeFromBits(source[1] \div 16384)
        address_mode == effective_address_mode(directory_address_mode,
                                               entry_address_mode)
    IN  IF source[1] # 0 \/ source[2] # 0
        THEN Err("DirectoryPayloadRangeCheck")
        ELSE Ok(VOL(address_mode, <<source[3], source[4]>>))

\* source & 0xC000_0000_0000_0000 >> 62 is the entry's mode; the remaining
\* 62 bits must fit a u32.
new_from_raw_location(directory_address_mode, source) ==
    LET entry_address_mode == AddressModeFromBits(source[1] \div 16384)
        masked == <<source[1] % 16384, source[2], source[3], source[4]>>
        address_mode == effective_address_mode(directory_address_mode,
                                               entry_address_mode)
    IN  IF masked[1] # 0 \/ masked[2] # 0
        THEN Err("DirectoryPayloadRangeCheck")
        ELSE Ok(VOL(address_mode, <<masked[3], masked[4]>>))

\* u64::from(x) | flag, the flag being the variant's mode in bits 62..63
try_into_raw_location(v, directory_address_mode) ==
    LET x == v.payload
    IN  CASE v.tag = "Value" -> Err("EntryTypeMismatch")
          [] v.tag = "PhysicalAddress" ->
                IF is_entry_address_mode_effective(directory_address_mode,
                                                   "PhysicalAddress")
                THEN Ok(<<0, 0, x[1], x[2]>>)
                ELSE Err("EntryTypeMismatch")
          [] v.tag = "EfsRelativeOffset" ->
                IF is_entry_address_mode_effective(directory_address_mode,
                                                   "EfsRelativeOffset")
                THEN Ok(<<IF directory_address_mode
                                \in {"DirectoryRelativeOffset",
                                     "OtherDirectoryRelativeOffset"}
                          THEN 16384 ELSE 0,
                          0, x[1], x[2]>>)
                ELSE Err("EntryTypeMismatch")
          [] v.tag = "DirectoryRelativeOffset" ->
                IF is_entry_address_mode_effective(directory_address_mode,
                                                   "DirectoryRelativeOffset")
                THEN Ok(<<32768, 0, x[1], x[2]>>)
                ELSE Err("EntryTypeMismatch")
          [] v.tag = "OtherDirectoryRelativeOffset" ->
                IF is_entry_address_mode_effective(directory_address_mode,
                                                   "OtherDirectoryRelativeOffset")
                THEN Ok(<<49152, 0, x[1], x[2]>>)
                ELSE Err("EntryTypeMismatch")

---------------------------------------------------------------------------
(* The codec harness: an input (v, m) is encoded, and a successful         *)
(* encoding is decoded under the same directory address mode.              *)

\* Halves of the sampled 32-bit payloads: the extremes and each value of
\* the top two bits.
PayloadHalves == {0, 1, 16383, 16384, 32768, 49152, 65535}

PayloadSamples32 ==
    {<<h, l>> : h \in PayloadHalves, l \in {0, 1, 65535}}

PayloadSamples64 ==
    {<<0, 0, 0, 1>>, <<65535, 65535, 65535, 65535>>, <<16384, 0, 33, 0>>}

VolSamples ==
    {VOL("Value", p) : p \in PayloadSamples64}
        \cup {VOL(t, p) : t \in {AddressModes[i] : i \in 1..4},
                          p \in PayloadSamples32}

VlIdle == [pc |-> "idle"]

VlInit ==
    vl \in {[pc |-> "input", v |-> v, m |-> AddressModes[i]] :
                v \in VolSamples, i \in 1..4}

VlEncode ==
    /\ vl.pc = "input"
    /\ vl' = [pc |-> "encoded", v |-> vl.v, m |-> vl.m,
              raw |-> try_into_raw_location(vl.v, vl.m)]
    /\ UNCHANGED <<harnessVars, gc, efsVars, dirVars>>

VlDecode ==
    /\ vl.pc = "encoded"
    /\ vl.raw.ok
    /\ vl' = [pc |-> "decoded", v |-> vl.v, m |-> vl.m, raw |-> vl.raw,
              dec |-> new_from_raw_location(vl.m, vl.raw.val)]
    /\ UNCHANGED <<harnessVars, gc, efsVars, dirVars>>

\* raw sources as an entry read from flash holds them: each value of the
\* top two bits, bits 32..61 empty and not, and three low halves
RawSources ==
    {<<w3, w2, lo[1], lo[2]>> :
        w3 \in {0, 1, 16383, 16384, 16385, 32768, 49152, 65535},
        w2 \in {0, 1},
        lo \in {<<0, 0>>, <<0, 4096>>, <<65535, 65535>>}}

\* ValueOrLocation::new_from_raw_location(m, source) on a source that no
\* encoding of this library made
VlDecodeRaw ==
    /\ vl.pc = "raw"
    /\ vl' = [pc |-> "decoded_raw", m |-> vl.m, source |-> vl.source,
              dec |-> new_from_raw_location(vl.m, vl.source)]
    /\ UNCHANGED <<harnessVars, gc, efsVars, dirVars>>

---------------------------------------------------------------------------
(* ondisk.rs: the Embedded Firmware Header                                 *)

\* The first one is recommended by AMD; the last one is always used in
\* practice: 0xFA_0000, 0xF2_0000, 0xE2_0000, 0xC2_0000, 0x82_0000, 0x2_0000
EFH_POSITION ==
    <<16384000, 15859712, 14811136, 12713984, 8519680, 131072>>

EfhPositions == {EFH_POSITION[i] : i \in 1..Len(EFH_POSITION)}

ProcessorGeneration == {"Naples", "Rome", "Milan", "Genoa", "Turin"}

\* 0x55aa_55aa
EFH_SIGNATURE == <<21930, 21930>>

\* Efh::default() with efs_generations set; the fields the probe reads
EfhDefault(efs_generations) ==
    [signature |-> EFH_SIGNATURE, efs_generations |-> efs_generations]

\* what an erased (0xFF-filled) block parses as
EfhErased == [signature |-> <<65535, 65535>>, efs_generations |-> <<65535, 65535>>]

second_gen_efs(efh) == Bit(efh.efs_generations[2], 0) = 0

efs_generations_for_processor_generation(generation) ==
    CASE generation = "Naples" -> <<65535, 65535>>   \* 0xffff_ffff
      [] generation = "Rome"   -> <<65535, 65534>>   \* 0xffff_fffe
      [] generation = "Milan"  -> <<65535, 65532>>   \* 0xffff_fffc
      [] generation = "Genoa"  -> <<65535, 65534>>   \* 0xffff_fffe
      [] generation = "Turin"  -> <<65535, 65507>>   \* 0xffff_ffe3

physical_address_mode(efh) ==
    IF efh.efs_generations = efs_generations_for_processor_generation("Turin")
    THEN FALSE
    ELSE ~second_gen_efs(efh)

\* The XXX of the source taken the other way: Turin tested on bit 2.
compatible_with_processor_generation_bit2(efh, generation) ==
    CASE generation = "Naples" -> efh.efs_generations = <<65535, 65535>>
      [] generation = "Rome" -> efh.efs_generations = <<65535, 65534>>
      [] generation \in {"Milan", "Genoa"} -> Bit(efh.efs_generations[2], 0) = 0
      [] generation = "Turin" -> Bit(efh.efs_generations[2], 2) = 0

compatible_with_processor_generation(efh, generation) ==
    CASE generation = "Naples" -> efh.efs_generations = <<65535, 65535>>
      [] generation = "Rome" -> efh.efs_generations = <<65535, 65534>>
      [] generation \in {"Milan", "Genoa"} -> Bit(efh.efs_generations[2], 0) = 0
      [] generation = "Turin" -> Bit(efh.efs_generations[2], 3) = 0

---------------------------------------------------------------------------
(* The generation-compatibility harness: a 32-bit efs_generations word and *)
(* a generation are drawn, and compatible_with_processor_generation is     *)
(* applied to them.                                                        *)

\* every combination of the five low bits under an all-ones upper part,
\* and every combination with the upper part not all ones
GcLowHalves == {65504 + k : k \in 0..31} \cup {k : k \in 0..31}

GcWords == {<<h, l>> : h \in {65535, 32767, 0}, l \in GcLowHalves}

GcIdle == [pc |-> "idle"]

GcInit ==
    gc \in {[pc |-> "input", efs_generations |-> w, generation |-> g] :
                w \in GcWords, g \in ProcessorGeneration}

GcApply ==
    /\ gc.pc = "input"
    /\ gc' = [pc |-> "done", efs_generations |-> gc.efs_generations,
              generation |-> gc.generation,
              result |-> compatible_with_processor_generation(
                             [signature |-> EFH_SIGNATURE,
                              efs_generations |-> gc.efs_generations],
                             gc.generation)]
    /\ UNCHANGED <<harnessVars, vl, efsVars, dirVars>>

---------------------------------------------------------------------------
(* efs.rs: Efs::efh_beginning, Efs::load, Efs::create.  The storage is a   *)
(* flash of which only the six candidate blocks matter here; each holds    *)
(* the Efh that its first bytes parse as.  Reads never fail.               *)

BlankFlash == [p \in EfhPositions |-> EfhErased]

signature_ok(efh) == efh.signature = EFH_SIGNATURE

\* the condition of the first loop of efh_beginning
first_pass_accepts(efh, processor_generation) ==
    /\ signature_ok(efh)
    /\ second_gen_efs(efh)
    /\ IF processor_generation = "None" THEN TRUE
       ELSE compatible_with_processor_generation(efh, processor_generation)

\* the condition of the second loop ("old firmware header is better than
\* no firmware header")
second_pass_accepts(efh, processor_generation) ==
    /\ signature_ok(efh)
    /\ ~second_gen_efs(efh)
    /\ processor_generation = "None"

\* the index of the first candidate, in the order of EFH_POSITION, whose
\* index is in the set idxs; 0 if there is none
FirstIndex(idxs) ==
    IF idxs = {} THEN 0
    ELSE CHOOSE i \in idxs : \A j \in idxs : i <= j

efh_beginning(storage, processor_generation) ==
    LET pass1 == FirstIndex({i \in 1..Len(EFH_POSITION) :
                     first_pass_accepts(storage[EFH_POSITION[i]],
                                        processor_generation)})
        pass2 == FirstIndex({i \in 1..Len(EFH_POSITION) :
                     second_pass_accepts(storage[EFH_POSITION[i]],
                                         processor_generation)})
    IN  IF pass1 # 0 THEN Ok(EFH_POSITION[pass1])
        ELSE IF pass2 # 0 THEN Ok(EFH_POSITION[pass2])
        ELSE Err("EfsHeaderNotFound")

\* Efs::load: the Efs handle is its position and the Efh read there
Efs_load(storage, processor_generation) ==
    LET b == efh_beginning(storage, processor_generation)
    IN  IF ~b.ok THEN b
        ELSE IF ~signature_ok(storage[b.val]) THEN Err("EfsHeaderNotFound")
        ELSE Ok([efh_beginning |-> b.val, efh |-> storage[b.val]])

\* Efs::create: the flash it leaves behind, whether it wrote, its result
Efs_create(storage, processor_generation, location) ==
    IF location \notin EfhPositions
    THEN [storage |-> storage, wrote |-> FALSE, result |-> Err("EfsRangeCheck")]
    ELSE LET written == [storage EXCEPT ![location] =
                            EfhDefault(efs_generations_for_processor_generation(
                                           processor_generation))]
         IN  [storage |-> written, wrote |-> TRUE,
              result |-> Efs_load(written, processor_generation)]

---------------------------------------------------------------------------
(* The Efs operations as steps.  An operation runs to completion in one    *)
(* step and leaves its arguments and result in efsOp; the caller then      *)
(* takes the result (EfsReturn).  Between operations the image may be      *)
(* programmed or erased by other tools.                                    *)

\* the most candidate blocks holding something other than erased flash
MaxEfs == 2

NonBlank(storage) == {p \in EfhPositions : storage[p] # EfhErased}

\* None stands for Option::None of the requested generation
RequestedGenerations == ProcessorGeneration \cup {"None"}

\* the locations Efs::create is tried at: the six candidates, and 0 and
\* 0x1_0000 that are not candidates
CreateLocations == EfhPositions \cup {0, 65536}

\* efs_generations words found in images: the five seeds, and 0xffff_fff6
\* (bits 0 and 3 clear)
ImageGenerations ==
    {<<65535, 65535>>, <<65535, 65534>>, <<65535, 65532>>, <<65535, 65507>>,
     <<65535, 65526>>}

\* what other tools leave at a candidate: an Efh with a good signature, or
\* one whose signature is 0x55aa_55ab
ImageEfhs ==
    {EfhDefault(w) : w \in ImageGenerations}
        \cup {[signature |-> <<21930, 21931>>, efs_generations |-> <<65535, 65534>>]}

EfsIdle == [op |-> "idle"]

\* the location Efs::create is meant to be given for a generation:
\* 0x2_0000 for Naples, Genoa and Turin, 0xFA_0000 for Rome and Milan
preferred_efh_location(processor_generation) ==
    IF processor_generation \in {"Rome", "Milan"} THEN 16384000 ELSE 131072

EfsProbe(g) ==
    /\ efsOp.op = "idle"
    /\ efsOp' = [op |-> "efh_beginning", generation |-> g,
                 result |-> efh_beginning(efsFlash, g)]
    /\ UNCHANGED <<harnessVars, vl, gc, efsFlash, external, dirVars>>

EfsLoad(g) ==
    /\ efsOp.op = "idle"
    /\ efsOp' = [op |-> "load", generation |-> g,
                 result |-> Efs_load(efsFlash, g)]
    /\ UNCHANGED <<harnessVars, vl, gc, efsFlash, external, dirVars>>

EfsCreate(g, location) ==
    LET r == Efs_create(efsFlash, g, location)
    IN  /\ efsOp.op = "idle"
        /\ Cardinality(NonBlank(r.storage)) <= MaxEfs
        /\ efsFlash' = r.storage
        /\ efsOp' = [op |-> "create", generation |-> g, location |-> location,
                     blank |-> (efsFlash = BlankFlash), wrote |-> r.wrote,
                     result |-> r.result]
        /\ UNCHANGED <<harnessVars, vl, gc, external, dirVars>>

EfsReturn ==
    /\ efsOp.op # "idle"
    /\ efsOp' = EfsIdle
    /\ UNCHANGED <<harnessVars, vl, gc, efsFlash, external, dirVars>>

FlashProgram(p, efh) ==
    /\ efsOp.op = "idle"
    /\ efsFlash[p] # efh
    /\ Cardinality(NonBlank([efsFlash EXCEPT ![p] = efh])) <= MaxEfs
    /\ efsFlash' = [efsFlash EXCEPT ![p] = efh]
    /\ external' = TRUE
    /\ UNCHANGED <<harnessVars, vl, gc, efsOp, dirVars>>

FlashErase(p) ==
    /\ efsOp.op = "idle"
    /\ efsFlash[p] # EfhErased
    /\ efsFlash' = [efsFlash EXCEPT ![p] = EfhErased]
    /\ external' = TRUE
    /\ UNCHANGED <<harnessVars, vl, gc, efsOp, dirVars>>

---------------------------------------------------------------------------
(* The flash under the directory engine.  A block is the sequence of its   *)
(* 16-bit little-endian words up to the last one that is not 0xFFFF; the   *)
(* words after it read as erased.                                          *)

ERASABLE_BLOCK_SIZE == 4096

\* the number of erasable blocks of the flash
NumBlocks == 8

FlashBlocks == 0..(NumBlocks - 1)

ErasedFlash == [b \in FlashBlocks |-> <<>>]

\* the words ws without the erased words at their end
Trim(ws) ==
    IF ws = <<>> \/ ws[Len(ws)] # 65535 THEN ws
    ELSE LET kept == {i \in 1..Len(ws) : ws[i] # 65535}
         IN  SubSeq(ws, 1, IF kept = {} THEN 0
                           ELSE CHOOSE i \in kept : \A j \in kept : j <= i)

\* the 16-bit word at the even byte location
WordAt(storage, location) ==
    LET block == storage[location \div ERASABLE_BLOCK_SIZE]
        index == (location % ERASABLE_BLOCK_SIZE) \div 2 + 1
    IN  IF index <= Len(block) THEN block[index] ELSE 65535

\* read_exact of count bytes at location, as words
ReadWords(storage, location, count) ==
    LET words == [k \in 1..(count \div 2) |->
                     WordAt(storage, location + 2 * (k - 1))]
    IN  SubSeq(words, 1, count \div 2)

\* erase_and_write_blocks of one block whose leading words are ws
erase_and_write_block(storage, location, ws) ==
    [storage EXCEPT ![location \div ERASABLE_BLOCK_SIZE] = Trim(ws)]

\* the block at the aligned location with the words ws put at byte offset
\* buf_index (read_erasable_block, patch, erase_and_write_blocks)
PatchBlock(storage, location, buf_index, ws) ==
    LET first == buf_index \div 2
        n == first + Len(ws)
        old == storage[location \div ERASABLE_BLOCK_SIZE]
        buf == IF Len(old) >= n THEN old
               ELSE old \o [j \in 1..(n - Len(old)) |-> 65535]
    IN  erase_and_write_block(storage, location,
            SubSeq(buf, 1, first) \o ws \o SubSeq(buf, n + 1, Len(buf)))

---------------------------------------------------------------------------
(* amdfletcher32.rs: Fletcher<Wu32>, seeded 0x0000ffff, 16-bit input.      *)

MAX_CHUNK_SIZE == 359

\* a checksummer with both sums seeded to zero
FletcherNew_zeroed == [a |-> 0, b |-> 0]

\* Fletcher::new: both sums start as Wu32::default(), 0x0000ffff
FletcherNew == [a |-> 65535, b |-> 65535]

\* (value & BIT_MASK) + (value >> SHIFT_AMOUNT)
FletcherReduce(value) == (value % 65536) + (value \div 65536)

\* the two running sums of the hasher
FletcherStates == [a : Nat, b : Nat]

\* one chunk of at most MAX_CHUNK_SIZE words: a += word, b += a per word
FletcherChunk(st, chunk) ==
    LET summed[lo \in Nat, hi \in Nat, s \in FletcherStates] ==
            IF lo > hi THEN s
            ELSE IF lo = hi
            THEN [a |-> s.a + chunk[lo], b |-> s.b + s.a + chunk[lo]]
            ELSE summed[(lo + hi) \div 2 + 1, hi,
                        summed[lo, (lo + hi) \div 2, s]]
    IN  summed[1, Len(chunk), st]

\* the chunk loop of Fletcher::update: both sums are reduced after each chunk
FletcherChunks(st, data) ==
    LET done[from \in Nat, s \in FletcherStates] ==
            IF from > Len(data) THEN s
            ELSE LET last == IF from + MAX_CHUNK_SIZE - 1 > Len(data)
                             THEN Len(data) ELSE from + MAX_CHUNK_SIZE - 1
                 IN  Bind(FletcherChunk(s, SubSeq(data, from, last)),
                          LAMBDA t :
                            done[last + 1, [a |-> FletcherReduce(t.a),
                                            b |-> FletcherReduce(t.b)]])
    IN  done[1, st]

\* Fletcher::update: chunk-wise, then one more reduction
FletcherUpdate(st, data) ==
    Bind(FletcherChunks(st, data),
         LAMBDA t : [a |-> FletcherReduce(t.a), b |-> FletcherReduce(t.b)])

\* Fletcher::value: a | (b << 16), as <<hi, lo>>
FletcherValue(st) == <<st.b % 65536, st.a>>

---------------------------------------------------------------------------
(* ondisk.rs: the PSP directory header and entry, as stored (little-endian *)
(* 16-bit words).  Locations and sizes stay below 2^31 in the model.       *)

\* a u32 below 2^31 as <<hi, lo>>, and back
ToHalves(n) == <<n \div 65536, n % 65536>>

FromHalves(x) == x[1] * 65536 + x[2]

\* size_of::<PspDirectoryHeader>() and size_of::<PspDirectoryEntry>()
MainHeaderSize == 16

ItemSize == 16

\* the cookies as two words: "$PSP", "$PL2", "$BHD", "$BL2", and the
\* "    " of PspDirectoryHeader::default()
CookiePSP == <<20516, 20563>>

CookiePL2 == <<20516, 12876>>

CookieBHD == <<16932, 17480>>

CookieBL2 == <<16932, 12876>>

CookieBlank == <<8224, 8224>>

\* DirectoryAdditionalInfo: max_size B10, spi_block_size B4, base_address
\* B15, address_mode 2 bits, one reserved bit; as <<hi, lo>>
AdditionalInfo(max_size, spi_block_size, base_address, address_mode) ==
    <<(base_address \div 4) + 8192 * address_mode,
      max_size + 1024 * spi_block_size + 16384 * (base_address % 4)>>

max_size(info) == info[2] % 1024

base_address(info) == (info[2] \div 16384) + 4 * (info[1] % 8192)

address_mode(info) == AddressModeFromBits((info[1] \div 8192) % 4)

\* DirectoryAdditionalInfo::UNIT
UNIT == 4096

\* PspDirectoryHeader::default()
PspDirectoryHeaderDefault ==
    [cookie |-> CookieBlank, checksum |-> <<0, 0>>, total_entries |-> <<0, 0>>,
     additional_info |-> <<65535, 65535>>]

HeaderWords(h) ==
    <<h.cookie[1], h.cookie[2], h.checksum[2], h.checksum[1],
      h.total_entries[2], h.total_entries[1],
      h.additional_info[2], h.additional_info[1]>>

HeaderFromWords(ws) ==
    [cookie |-> <<ws[1], ws[2]>>, checksum |-> <<ws[4], ws[3]>>,
     total_entries |-> <<ws[6], ws[5]>>, additional_info |-> <<ws[8], ws[7]>>]

\* a PspDirectoryEntry: attrs and internal_size are u32 <<hi, lo>>,
\* internal_source is a u64 <<w3, w2, w1, w0>>
EntryWords(e) ==
    <<e.attrs[2], e.attrs[1], e.internal_size[2], e.internal_size[1],
      e.internal_source[4], e.internal_source[3],
      e.internal_source[2], e.internal_source[1]>>

EntryFromWords(ws) ==
    [attrs |-> <<ws[2], ws[1]>>, internal_size |-> <<ws[4], ws[3]>>,
     internal_source |-> <<ws[8], ws[7], ws[6], ws[5]>>]

SIZE_VALUE_MARKER == <<65535, 65535>>

\* PspDirectoryEntry::new_value
new_value(type_, value) ==
    [attrs |-> <<0, type_>>, internal_size |-> SIZE_VALUE_MARKER,
     internal_source |-> value]

\* PspDirectoryEntry::new_payload as efs.rs calls it: type, size and the
\* raw location
new_payload(type_, size, source) ==
    [attrs |-> <<0, type_>>, internal_size |-> ToHalves(size),
     internal_source |-> <<0, 0, source \div 65536, source % 65536>>]

\* DirectoryEntry::size: None for a value entry
entry_size(e) ==
    IF e.internal_size = SIZE_VALUE_MARKER THEN None
    ELSE Some(FromHalves(e.internal_size))

entry_source(e, directory_address_mode) ==
    IF e.internal_size = SIZE_VALUE_MARKER
    THEN Ok(VOL("Value", e.internal_source))
    ELSE new_from_raw_location(directory_address_mode, e.internal_source)

\* DirectoryEntry::set_source: the entry, or the error of the encoding
set_source(e, directory_address_mode, value) ==
    IF value.tag = "Value"
    THEN Ok([e EXCEPT !.internal_size = SIZE_VALUE_MARKER,
                      !.internal_source = value.payload])
    ELSE LET v == try_into_raw_location(value, directory_address_mode)
         IN  IF v.ok THEN Ok([e EXCEPT !.internal_source = v.val]) ELSE v

---------------------------------------------------------------------------
(* efs.rs: Directory (the PspDirectory instance).  An operation is an      *)
(* operator from the flash and the handle to the flash, the handle and the *)
(* result it leaves.                                                       *)

\* PspDirectory: const SPI_BLOCK_SIZE = 0x3000
SPI_BLOCK_SIZE == 12288

MAX_DIRECTORY_HEADERS_SIZE == SPI_BLOCK_SIZE

minimal_directory_headers_size(total_entries) ==
    MainHeaderSize + ItemSize * total_entries

\* the directory types of efs.rs: PspDirectory, BhdDirectory, ComboDirectory
DirectoryKinds == {"Psp", "Bhd", "Combo"}

\* size_of::<MainHeader>() of a directory type
MainHeaderSizeOf(kind) == IF kind = "Combo" THEN 2 * MainHeaderSize ELSE MainHeaderSize

\* MAX_DIRECTORY_HEADERS_SIZE of a directory type: its SPI_BLOCK_SIZE
\* parameter (0x3000 for PspDirectory, 0x1000 for the other two)
MaxDirectoryHeadersSizeOf(kind) ==
    IF kind = "Psp" THEN MAX_DIRECTORY_HEADERS_SIZE ELSE 4096

\* size_of::<Item>() of a directory type (a BhdDirectoryEntry has a
\* destination as well)
ItemSizeOf(kind) == IF kind = "Bhd" THEN ItemSize + 8 ELSE ItemSize

\* DirectoryHeader::additional_info: a ComboDirectoryHeader has none
additional_info_of(kind, header) ==
    IF kind = "Combo" THEN <<0, 0>> ELSE header.additional_info

\* Directory::load for the directory type kind
Directory_load_as(kind, storage, location) ==
    LET header == HeaderFromWords(ReadWords(storage, location,
                                            MainHeaderSizeOf(kind)))
        info == additional_info_of(kind, header)
        contents_base == base_address(info) * UNIT
        directory_address_mode == address_mode(info)
    IN  IF header.cookie \notin {CookiePSP, CookiePL2, CookieBHD, CookieBL2}
        THEN Err("Marshal")
        ELSE IF directory_address_mode = "OtherDirectoryRelativeOffset"
        THEN Err("DirectoryTypeMismatch")
        ELSE Ok([location |-> location,
                 directory_address_mode |-> directory_address_mode,
                 header |-> header,
                 directory_headers_size |->
                     IF contents_base = 0
                     THEN MainHeaderSizeOf(kind)
                              + ItemSizeOf(kind) * FromHalves(header.total_entries)
                     ELSE MaxDirectoryHeadersSizeOf(kind)])

\* PspDirectory::load
Directory_load(storage, location) == Directory_load_as("Psp", storage, location)

\* Directory::create for the directory type kind (PSP or BHD, whose
\* default headers are the same); the directory_address_mode argument is
\* not used
Directory_create_as(kind, storage, beginning, end, cookie) ==
    LET extent == IF end > beginning THEN end - beginning ELSE 0
        spi_block_size == MaxDirectoryHeadersSizeOf(kind)
        base == beginning + MaxDirectoryHeadersSizeOf(kind)
    IN  IF \/ spi_block_size % ERASABLE_BLOCK_SIZE # 0
           \/ extent % UNIT # 0 \/ extent \div UNIT > 1023
           \/ spi_block_size % UNIT # 0 \/ spi_block_size \div UNIT > 16
           \/ spi_block_size \div UNIT = 0
           \/ base % UNIT # 0 \/ base \div UNIT > 32767
        THEN [storage |-> storage, result |-> Err("DirectoryRangeCheck")]
        ELSE LET item == [PspDirectoryHeaderDefault EXCEPT
                            !.cookie = cookie,
                            !.additional_info =
                                AdditionalInfo(extent \div UNIT,
                                               (spi_block_size \div UNIT) % 16,
                                               base \div UNIT, 1)]
                 written == erase_and_write_block(storage, beginning,
                                                  HeaderWords(item))
             IN  [storage |-> written,
                  result |-> Directory_load_as(kind, written, beginning)]

\* PspDirectory::create
Directory_create(storage, beginning, end, cookie) ==
    Directory_create_as("Psp", storage, beginning, end, cookie)

\* the checksummer of update_main_header: the two words of total_entries,
\* then the words on flash from byte 12 of the directory to the end of
\* the last of total_entries entries, one update per word
FletcherWordByWord(st, ws) ==
    LET fed[lo \in Nat, hi \in Nat, s \in FletcherStates] ==
            IF lo > hi THEN s
            ELSE IF lo = hi THEN FletcherUpdate(s, <<ws[lo]>>)
            ELSE fed[(lo + hi) \div 2 + 1, hi, fed[lo, (lo + hi) \div 2, s]]
    IN  fed[1, Len(ws), st]

main_header_checksum(storage, location, total_entries) ==
    LET size == minimal_directory_headers_size(total_entries)
        seeded == FletcherUpdate(FletcherNew,
                                 <<total_entries % 65536, total_entries \div 65536>>)
    IN  Bind(ReadWords(storage, location + 12, size - 12),
             LAMBDA ws : FletcherValue(FletcherWordByWord(seeded, ws)))

\* Directory::update_main_header
update_main_header(storage, self, total_entries) ==
    Bind(main_header_checksum(storage, self.location, total_entries),
         LAMBDA checksum :
           LET header == [self.header EXCEPT
                             !.checksum = checksum,
                             !.total_entries = ToHalves(total_entries)]
           IN  IF self.location % ERASABLE_BLOCK_SIZE # 0
               THEN [storage |-> storage,
                     self |-> [self EXCEPT !.header.checksum = checksum],
                     result |-> Err("Misaligned")]
               ELSE [storage |-> PatchBlock(storage, self.location, 0,
                                            HeaderWords(header)),
                     self |-> [self EXCEPT !.header = header],
                     result |-> Ok("unit")])

\* write_directory_entry with the buffer left as initialised, all 0xFF,
\* where the code reads the block into it
write_directory_entry_unread(storage, directory_entry_position, entry) ==
    LET buf_index == directory_entry_position % ERASABLE_BLOCK_SIZE
    IN  erase_and_write_block(storage, directory_entry_position - buf_index,
            [j \in 1..(buf_index \div 2) |-> 65535] \o EntryWords(entry))

\* Directory::write_directory_entry
write_directory_entry(storage, directory_entry_position, entry) ==
    LET buf_index == directory_entry_position % ERASABLE_BLOCK_SIZE
    IN  PatchBlock(storage, directory_entry_position - buf_index, buf_index,
                   EntryWords(entry))

directory_beginning(self) == self.location + MainHeaderSize

directory_end(self) == self.location + self.directory_headers_size

contents_beginning(self) ==
    LET contents_base == base_address(self.header.additional_info) * UNIT
    IN  IF contents_base = 0 THEN directory_end(self) ELSE contents_base

contents_end(self) ==
    contents_beginning(self) + max_size(self.header.additional_info) * UNIT
        - self.directory_headers_size

\* Directory::entries: the entries read back from flash
entries(storage, self) ==
    LET total_entries == FromHalves(self.header.total_entries)
        items == [i \in 1..total_entries |->
                     EntryFromWords(ReadWords(storage,
                         directory_beginning(self) + ItemSize * (i - 1),
                         ItemSize))]
    IN  SubSeq(items, 1, total_entries)

\* u32 arithmetic on <<hi, lo>>: checked_add, >= and wrapping_sub
checked_add(x, y) ==
    LET lo == x[2] + y[2]
        hi == x[1] + y[1] + lo \div 65536
    IN  IF hi >= 65536 THEN None ELSE Some(<<hi, lo % 65536>>)

ge32(x, y) == x[1] > y[1] \/ (x[1] = y[1] /\ x[2] >= y[2])

wrapping_sub(x, y) ==
    LET lo == x[2] - y[2]
        hi == x[1] - y[1] - (IF lo < 0 THEN 1 ELSE 0)
    IN  <<(hi + 65536) % 65536, (lo + 65536) % 65536>>

\* A plausible slip: the lowest address of the MMIO window is left out
\* (value > mmio_address_lower).
mmio_decode_exclusive(value, amd_physical_mode_mmio_size) ==
    IF amd_physical_mode_mmio_size = <<0, 0>>
    THEN Err("DirectoryTypeMismatch")
    ELSE LET mmio_address_lower ==
                 checked_add(<<0, 1>>,
                     wrapping_sub(<<65535, 65535>>,
                                  amd_physical_mode_mmio_size)).val
         IN  IF ge32(value, mmio_address_lower) /\ value # mmio_address_lower
             THEN Ok(wrapping_sub(value, mmio_address_lower))
             ELSE Err("DirectoryTypeMismatch")

\* ondisk.rs mmio_decode
mmio_decode(value, amd_physical_mode_mmio_size) ==
    IF amd_physical_mode_mmio_size = <<0, 0>>
    THEN Err("DirectoryTypeMismatch")
    ELSE LET mmio_address_lower ==
                 checked_add(<<0, 1>>,
                     wrapping_sub(<<65535, 65535>>,
                                  amd_physical_mode_mmio_size)).val
         IN  IF ge32(value, mmio_address_lower)
             THEN Ok(wrapping_sub(value, mmio_address_lower))
             ELSE Err("DirectoryTypeMismatch")

\* Directory::location_of_source for a directory at location opened with
\* amd_physical_mode_mmio_size; every u32 is <<hi, lo>>
location_of_source_at(location, amd_physical_mode_mmio_size, source, entry_base_location) ==
    CASE source.tag = "Value" -> Err("DirectoryTypeMismatch")
      [] source.tag = "PhysicalAddress" ->
            IF ~amd_physical_mode_mmio_size.some
            THEN Err("EntryTypeMismatch")
            ELSE IF mmio_decode(source.payload,
                                amd_physical_mode_mmio_size.val).ok
            THEN mmio_decode(source.payload, amd_physical_mode_mmio_size.val)
            ELSE IF ~ge32(source.payload, amd_physical_mode_mmio_size.val)
            THEN Ok(source.payload)
            ELSE Err("EntryTypeMismatch")
      [] source.tag = "EfsRelativeOffset" -> Ok(source.payload)
      [] source.tag = "DirectoryRelativeOffset" ->
            IF checked_add(location, source.payload).some
            THEN Ok(checked_add(location, source.payload).val)
            ELSE Err("DirectoryPayloadRangeCheck")
      [] source.tag = "OtherDirectoryRelativeOffset" ->
            IF checked_add(source.payload, entry_base_location).some
            THEN Ok(checked_add(source.payload, entry_base_location).val)
            ELSE Err("DirectoryPayloadRangeCheck")

\* Directory::location_of_source, for a directory opened with
\* amd_physical_mode_mmio_size = None
location_of_source(self, source, entry_base_location) ==
    Bind(location_of_source_at(ToHalves(self.location), None, source,
                               ToHalves(entry_base_location)),
         LAMBDA r : IF r.ok THEN Ok(FromHalves(r.val)) ELSE r)

\* the frontier after the entries from index i on: the highest end of a
\* payload that lies within the contents, or the first error
RECURSIVE PayloadFrontier(_, _, _, _)
PayloadFrontier(self, es, i, frontier) ==
    IF i > Len(es) THEN Ok(frontier)
    ELSE IF ~entry_size(es[i]).some
    THEN PayloadFrontier(self, es, i + 1, frontier)
    ELSE Bind(entry_source(es[i], self.directory_address_mode),
              LAMBDA src :
                IF ~src.ok THEN src
                ELSE Bind(location_of_source(self, src.val,
                              self.location + ItemSize * (i - 1)),
                          LAMBDA x :
                            IF ~x.ok THEN x
                            ELSE PayloadFrontier(self, es, i + 1,
                                   IF /\ x.val >= contents_beginning(self)
                                      /\ x.val + entry_size(es[i]).val
                                            <= contents_end(self)
                                      /\ x.val + entry_size(es[i]).val
                                            > frontier
                                   THEN x.val + entry_size(es[i]).val
                                   ELSE frontier)))

\* FlashWrite::grow_to_erasable_block: the beginning moved down and the
\* end moved up to a block boundary
grow_to_erasable_block(beginning, end) ==
    <<(beginning \div ERASABLE_BLOCK_SIZE) * ERASABLE_BLOCK_SIZE,
      ((end + ERASABLE_BLOCK_SIZE - 1) \div ERASABLE_BLOCK_SIZE)
          * ERASABLE_BLOCK_SIZE>>

\* find_payload_empty_slot handing out the frontier as it is, not grown
\* to a block boundary
find_payload_empty_slot_ungrown(storage, self, size) ==
    PayloadFrontier(self, entries(storage, self), 1, contents_beginning(self))

\* Directory::find_payload_empty_slot: the frontier grown to the end of
\* its erasable block; the size asked for plays no part
find_payload_empty_slot(storage, self, size) ==
    Bind(PayloadFrontier(self, entries(storage, self), 1,
                         contents_beginning(self)),
         LAMBDA f :
           IF ~f.ok THEN f
           ELSE Ok(grow_to_erasable_block(f.val, f.val)[2]))

\* the source add_entry stores for a payload at beginning
source_for(self, beginning) ==
    CASE self.directory_address_mode = "PhysicalAddress" ->
            Err("DirectoryTypeMismatch")
      [] self.directory_address_mode = "EfsRelativeOffset" ->
            Ok(VOL("EfsRelativeOffset", ToHalves(beginning)))
      [] self.directory_address_mode = "DirectoryRelativeOffset" ->
            IF beginning >= self.location
            THEN Ok(VOL("DirectoryRelativeOffset",
                        ToHalves(beginning - self.location)))
            ELSE Err("DirectoryPayloadRangeCheck")
      [] self.directory_address_mode = "OtherDirectoryRelativeOffset" ->
            Err("DirectoryTypeMismatch")

\* Directory::add_entry; payload_position is None or Some(location).  The
\* result is Ok(None), Ok(Some(location of the payload)) or an error.
add_entry(storage, self, payload_position, entry) ==
    LET old == FromHalves(self.header.total_entries)
        total_entries == old + 1
        size == entry_size(entry)
        found == find_payload_empty_slot(storage, self, size.val)
    IN  IF minimal_directory_headers_size(total_entries) > self.directory_headers_size
        THEN [storage |-> storage, self |-> self,
              result |-> Err("DirectoryRangeCheck"), stored |-> None]
        ELSE Bind(IF ~size.some \/ size.val = 0 THEN Ok(None)
                  ELSE IF payload_position.some THEN Ok(payload_position)
                  ELSE IF found.ok THEN Ok(Some(found.val)) ELSE found,
             LAMBDA slot :
               Bind(IF ~slot.ok THEN slot
                    ELSE IF ~slot.val.some THEN Ok(entry)
                    ELSE Bind(source_for(self, slot.val.val),
                              LAMBDA src :
                                IF src.ok
                                THEN set_source(entry,
                                         self.directory_address_mode, src.val)
                                ELSE src),
               LAMBDA stored :
                 IF ~stored.ok
                 THEN [storage |-> storage, self |-> self,
                       result |-> stored, stored |-> None]
                 ELSE Bind(update_main_header(
                               write_directory_entry(storage,
                                   self.location
                                       + minimal_directory_headers_size(old),
                                   stored.val),
                               self, total_entries),
                           LAMBDA u :
                             [storage |-> u.storage, self |-> u.self,
                              result |-> IF u.result.ok THEN slot
                                         ELSE u.result,
                              stored |-> Some(stored.val)])))

\* the loop of Directory::add_payload.  The contents callback hands over
\* the words of contents at its first call and nothing after that; what a
\* block lacks is filled with 0xFF.
RECURSIVE add_payload_loop(_, _, _, _, _, _)
add_payload_loop(storage, self, payload_position, remaining_size, contents, inside) ==
    IF remaining_size = 0 THEN [storage |-> storage, result |-> Ok("unit")]
    ELSE IF 2 * Len(contents) > remaining_size
    THEN [storage |-> storage, result |-> Err("DirectoryPayloadRangeCheck")]
    ELSE IF inside /\ payload_position + ERASABLE_BLOCK_SIZE > contents_end(self)
    THEN [storage |-> storage, result |-> Err("DirectoryPayloadRangeCheck")]
    ELSE IF payload_position \div ERASABLE_BLOCK_SIZE \notin FlashBlocks
    THEN [storage |-> storage, result |-> Err("Io")]
    ELSE add_payload_loop(
             erase_and_write_block(storage, payload_position, contents),
             self, payload_position + ERASABLE_BLOCK_SIZE,
             IF remaining_size > ERASABLE_BLOCK_SIZE
             THEN remaining_size - ERASABLE_BLOCK_SIZE ELSE 0,
             <<>>, inside)

\* Directory::add_payload
add_payload(storage, self, payload_position, size, contents) ==
    add_payload_loop(storage, self, payload_position, size, contents,
                     /\ payload_position >= contents_beginning(self)
                     /\ payload_position <= contents_end(self))

\* PspDirectory::add_value_entry
add_value_entry(storage, self, type_, value) ==
    Bind(add_entry(storage, self, None, new_value(type_, value)),
         LAMBDA r :
           [storage |-> r.storage, self |-> r.self, stored |-> r.stored,
            result |-> IF ~r.result.ok THEN r.result
                       ELSE IF r.result.val.some THEN Err("EntryTypeMismatch")
                       ELSE Ok("unit")])

\* PspDirectory::add_blob_entry
add_blob_entry(storage, self, payload_position, type_, size, contents) ==
    Bind(add_entry(storage, self, payload_position,
                   new_payload(type_, size,
                               IF payload_position.some
                               THEN payload_position.val ELSE 0)),
         LAMBDA r :
           IF ~r.result.ok
           THEN [storage |-> r.storage, self |-> r.self, stored |-> r.stored,
                 result |-> r.result]
           ELSE IF ~r.result.val.some
           THEN [storage |-> r.storage, self |-> r.self, stored |-> r.stored,
                 result |-> Err("EntryTypeMismatch")]
           ELSE Bind(add_payload(r.storage, r.self, r.result.val.val, size,
                                 contents),
                     LAMBDA p :
                       [storage |-> p.storage, self |-> r.self,
                        stored |-> r.stored,
                        result |-> IF p.result.ok THEN Ok(r.result.val.val)
                                   ELSE p.result]))

\* PspDirectoryEntryType::SecondLevelDirectory = 0x40
SecondLevelDirectory == 64

\* PspDirectory::create_subdirectory: the parent gets the entry, then the
\* subdirectory is created; the result is the subdirectory's handle
create_subdirectory(storage, self, beginning, end) ==
    LET es == entries(storage, self)
    IN  IF \E i \in 1..Len(es) : es[i].attrs[2] % 256 = SecondLevelDirectory
        THEN [storage |-> storage, self |-> self, stored |-> None,
              result |-> Err("Duplicate")]
        ELSE Bind(add_entry(storage, self, Some(beginning),
                      new_payload(SecondLevelDirectory,
                          IF end > beginning THEN end - beginning ELSE 0,
                          beginning)),
                  LAMBDA r :
                    IF ~r.result.ok
                    THEN [storage |-> r.storage, self |-> r.self,
                          stored |-> r.stored, result |-> r.result]
                    ELSE Bind(Directory_create(r.storage, beginning, end,
                                               CookiePL2),
                              LAMBDA c :
                                [storage |-> c.storage, self |-> r.self,
                                 stored |-> r.stored, result |-> c.result]))

---------------------------------------------------------------------------
(* The directory operations as steps.  One PSP directory is created on an  *)
(* erased flash and then filled; dirOp keeps the operation that has just   *)
(* returned, its result, and whether every operation so far succeeded.     *)

\* the most entries the directory is given
MaxEntries == 2

\* where the directory is created: 0x1000 .. 0x6000, so that its headers
\* take 0x1000 .. 0x4000 and its contents 0x4000 .. 0x6000
DirBeginning == 4096

DirEnd == 24576

\* payload positions handed to add_blob_entry: none, the block before the
\* directory, the directory's own first block, the two blocks of the
\* contents, and a block after the directory
BlobPositions ==
    {None, Some(0), Some(DirBeginning), Some(16384), Some(20480), Some(28672)}

BlobSizes == {0, 2048, 8192}

BlobContents == {<<>>, <<171, 205>>}

\* PspDirectoryEntryType::AmdPublicKey and ::PspSoftFuseChain
AmdPublicKey == 0

PspSoftFuseChain == 11

ValueSamples == {<<0, 0, 0, 1>>, <<65535, 65535, 65535, 65535>>}

\* the ranges a second-level directory is created in; neither overlaps
\* the directory or its contents (Efs::ensure_no_overlap has passed)
SubdirectoryRanges == {<<0, 4096>>, <<24576, 32768>>}

DirIdle == [op |-> "idle", result |-> Ok("unit"), clean |-> TRUE]

Returned(op, result) ==
    [op |-> op, result |-> result, clean |-> dirOp.clean /\ result.ok]

DirCreate ==
    \E r \in {Directory_create(flash, DirBeginning, DirEnd, CookiePSP)} :
        /\ ~dir.some
        /\ flash' = r.storage
        /\ dir' = IF r.result.ok THEN Some(r.result.val) ELSE None
        /\ added' = <<>>
        /\ dirOp' = Returned("create", r.result)
        /\ UNCHANGED <<harnessVars, vl, gc, efsVars>>

\* the common end of the operations that add an entry; dirOp keeps the
\* flash and the handle as they were before the call
Adopt(op, r) ==
    /\ flash' = r.storage
    /\ dir' = Some(r.self)
    /\ added' = IF r.stored.some THEN Append(added, r.stored.val) ELSE added
    /\ dirOp' = [op |-> op, result |-> r.result,
                 clean |-> dirOp.clean /\ r.result.ok,
                 before |-> [storage |-> flash, self |-> dir.val]]
    /\ UNCHANGED <<harnessVars, vl, gc, efsVars>>

DirAddValue(type_, value) ==
    /\ dir.some
    /\ FromHalves(dir.val.header.total_entries) < MaxEntries
    /\ \E r \in {add_value_entry(flash, dir.val, type_, value)} :
           Adopt("add_value_entry", r)

DirAddBlob(payload_position, size, contents) ==
    /\ dir.some
    /\ FromHalves(dir.val.header.total_entries) < MaxEntries
    /\ \E r \in {add_blob_entry(flash, dir.val, payload_position,
                                AmdPublicKey, size, contents)} :
           Adopt("add_blob_entry", r)

DirCreateSubdirectory(range) ==
    /\ dir.some
    /\ FromHalves(dir.val.header.total_entries) < MaxEntries
    /\ \E r \in {create_subdirectory(flash, dir.val, range[1], range[2])} :
           Adopt("create_subdirectory", r)

\* Directory::load at the location of the directory held
DirLoad ==
    /\ dir.some
    /\ dirOp.op # "load"
    /\ dirOp' = [op |-> "load",
                 result |-> Directory_load(flash, dir.val.location),
                 clean |-> dirOp.clean]
    /\ UNCHANGED <<harnessVars, vl, gc, efsVars, flash, dir, added>>

\* the blob sizes of the calls that leave the position to the directory:
\* none, a word, half a block, one block, a block and a word, two blocks,
\* three blocks
ChosenSizes == {0, 2, 2048, 4096, 4098, 8192, 12288}

\* the entries handed to add_entry with their payload positions: value
\* entries, and blobs of no size, of half a block and of two blocks at no
\* position, at the directory's own block and in the contents
GivenEntries ==
    {[payload_position |-> None, entry |-> new_value(PspSoftFuseChain, v)] :
        v \in ValueSamples}
    \cup {[payload_position |-> pos,
           entry |-> new_payload(AmdPublicKey, size,
                                 IF pos.some THEN pos.val ELSE 0)] :
             pos \in {None, Some(DirBeginning), Some(16384), Some(20480)},
             size \in {0, 2048, 8192}}

\* Directory::add_entry as add_value_entry, add_blob_entry and
\* create_subdirectory call it, observed when it returns; dirOp keeps the
\* flash and the handle as they were before the call
DirAddEntry(given) ==
    /\ dir.some
    /\ FromHalves(dir.val.header.total_entries) < MaxEntries
    /\ \E r \in {add_entry(flash, dir.val, given.payload_position, given.entry)} :
           /\ flash' = r.storage
           /\ dir' = Some(r.self)
           /\ added' = IF r.stored.some THEN Append(added, r.stored.val)
                       ELSE added
           /\ dirOp' = [op |-> "add_entry", result |-> r.result,
                        clean |-> dirOp.clean /\ r.result.ok,
                        given |-> given,
                        before |-> [storage |-> flash, self |-> dir.val]]
    /\ UNCHANGED <<harnessVars, vl, gc, efsVars>>

---------------------------------------------------------------------------
(* Directory::load on flash images written by another tool: one directory  *)
(* header at DirBeginning, opened as one of the directory types, and then  *)
(* given an entry.                                                         *)

\* b"XXXX" and b"2PSP"
CookieXXXX == <<22616, 22616>>

Cookie2PSP == <<20530, 20563>>

\* DirectoryHeader::ALLOWED_COOKIES of a directory type
ALLOWED_COOKIES(kind) ==
    CASE kind = "Psp" -> {CookiePSP, CookiePL2}
      [] kind = "Bhd" -> {CookieBHD, CookieBL2}
      [] kind = "Combo" -> {Cookie2PSP, <<16946, 17480>>}

ImageCookies ==
    {CookiePSP, CookiePL2, CookieBHD, CookieBL2, CookieXXXX, Cookie2PSP,
     CookieBlank}

\* the numbers of entries the header of an image declares
ImageTotalEntries == {0, 1, 63, 64, 65, 767, 768}

\* additional_info of an image: max_size 5 units, spi_block_size 3 units,
\* contents at 0x4000 or directly after the headers, every address mode
ImageInfos ==
    {AdditionalInfo(5, 3, base, mode) : base \in {0, 4}, mode \in 0..3}

ImageHeaders ==
    {[cookie |-> cookie, checksum |-> <<0, 0>>,
      total_entries |-> ToHalves(n), additional_info |-> info] :
        cookie \in ImageCookies, n \in ImageTotalEntries, info \in ImageInfos}

\* the header an image holds at DirBeginning
HeaderOnFlash == HeaderFromWords(ReadWords(flash, DirBeginning, MainHeaderSize))

\* Directory::load of the image as the directory type kind
ImgOpen(kind) ==
    /\ dirOp.op = "idle"
    /\ \E r \in {Directory_load_as(kind, flash, DirBeginning)} :
           /\ dir' = IF r.ok THEN Some(r.val) ELSE None
           /\ dirOp' = [op |-> "open", kind |-> kind, result |-> r,
                        clean |-> r.ok]
    /\ UNCHANGED <<harnessVars, vl, gc, efsVars, flash, added>>

\* PspDirectory::add_value_entry on the directory opened from the image
ImgAddValue(value) ==
    /\ dirOp.op = "open"
    /\ dirOp.kind = "Psp"
    /\ dir.some
    /\ \E r \in {add_value_entry(flash, dir.val, PspSoftFuseChain, value)} :
           Adopt("add_value_entry", r)

---------------------------------------------------------------------------
(* flash.rs: ErasableLocation and ErasableRange.  A Location is a u32      *)
(* <<hi, lo>>; a usize (an amount, a block size) is <<hi, lo>> as well,    *)
(* with a hi that may pass 16 bits, so amounts go up to 2^47.              *)

\* expect("Location within 4 GiB") failing
Panicked == [ok |-> FALSE, panic |-> "Location within 4 GiB"]

usize_add(x, y) ==
    <<x[1] + y[1] + (x[2] + y[2]) \div 65536, (x[2] + y[2]) % 65536>>

\* x - y for x >= y
usize_sub(x, y) ==
    IF x[2] >= y[2] THEN <<x[1] - y[1], x[2] - y[2]>>
    ELSE <<x[1] - y[1] - 1, x[2] + 65536 - y[2]>>

usize_le(x, y) == x[1] < y[1] \/ (x[1] = y[1] /\ x[2] <= y[2])

\* x & erasable_block_mask(), the mask being erasable_block_size - 1 and
\* erasable_block_size a power of two below 2^32
and_mask(x, erasable_block_size) ==
    IF erasable_block_size[1] = 0
    THEN <<0, x[2] % erasable_block_size[2]>>
    ELSE <<x[1] % erasable_block_size[1], x[2]>>

ErasableLocation(location, erasable_block_size) ==
    [location |-> location, erasable_block_size |-> erasable_block_size]

\* ErasableLocation::extent: end.saturating_sub(beginning)
extent(beginning, end) ==
    IF usize_le(beginning.location, end.location)
    THEN usize_sub(end.location, beginning.location)
    ELSE <<0, 0>>

\* A plausible slip: the amount is not checked against the block mask.
advance_unchecked(self, amount) ==
    LET pos == usize_add(self.location, amount)
    IN  IF pos[1] >= 65536 THEN Panicked
        ELSE Ok(ErasableLocation(pos, self.erasable_block_size))

\* ErasableLocation::advance
advance(self, amount) ==
    IF and_mask(amount, self.erasable_block_size) # <<0, 0>>
    THEN Err("Alignment")
    ELSE LET pos == usize_add(self.location, amount)
         IN  IF pos[1] >= 65536 THEN Panicked
             ELSE Ok(ErasableLocation(pos, self.erasable_block_size))

\* A plausible slip: a whole block is added to an amount that is a block
\* multiple already (diff = block size - (amount & mask)).
advance_at_least_extra_block(self, amount) ==
    advance(self, usize_add(amount,
                usize_sub(self.erasable_block_size,
                          and_mask(amount, self.erasable_block_size))))

\* ErasableLocation::advance_at_least: diff is 0usize.wrapping_sub(amount)
\* & mask, that is what amount lacks to the next block multiple
advance_at_least(self, amount) ==
    LET low == and_mask(amount, self.erasable_block_size)
        diff == IF low = <<0, 0>> THEN <<0, 0>>
                ELSE usize_sub(self.erasable_block_size, low)
    IN  advance(self, usize_add(amount, diff))

\* FlashAlign::erasable_location of a flash of the given block size
erasable_location(erasable_block_size, location) ==
    IF and_mask(location, erasable_block_size) = <<0, 0>>
    THEN Ok(ErasableLocation(location, erasable_block_size))
    ELSE Err("Alignment")

\* ErasableRange::new without its assertion beginning <= end
ErasableRange(beginning, end) == [beginning |-> beginning, end |-> end]

\* ErasableRange::capacity
capacity(self) == extent(self.beginning, self.end)

\* ErasableRange::take_at_least: the range left and what is returned,
\* Some(prefix) or None, or the panic of advance_at_least
take_at_least(self, size) ==
    LET x_end == advance_at_least(self.beginning, size)
    IN  IF x_end = Panicked THEN [self |-> self, result |-> Panicked]
        ELSE IF ~x_end.ok THEN [self |-> self, result |-> None]
        ELSE IF usize_le(x_end.val.location, self.end.location)
        THEN [self |-> ErasableRange(x_end.val, self.end),
              result |-> Some(ErasableRange(self.beginning, x_end.val))]
        ELSE [self |-> self, result |-> None]

---------------------------------------------------------------------------
(* A caller of flash.rs: it obtains an ErasableLocation from a flash of    *)
(* some block size, advances it, makes an ErasableRange of it and takes    *)
(* prefixes off the range.  A panic ends the caller.                       *)

\* the most advance and advance_at_least calls, and take_at_least calls
MaxAdvances == 2

MaxTakes == 3

\* erase-block sizes: 4 KiB and 128 KiB
BlockSizes == {<<0, 4096>>, <<2, 0>>}

\* locations asked of erasable_location: 0, 1, 0x1000, 0x1001, 0x2_0000,
\* 0xFFFE_0000, 0xFFFF_F000
RawLocations ==
    {<<0, 0>>, <<0, 1>>, <<0, 4096>>, <<0, 4097>>, <<2, 0>>, <<65534, 0>>,
     <<65535, 61440>>}

\* amounts and sizes: 0, 1, 0xFFF, 0x1000, 0x1001, 0x2_0000, 0x2_0001,
\* 0xFFFF_F001, 2^32
Amounts ==
    {<<0, 0>>, <<0, 1>>, <<0, 4095>>, <<0, 4096>>, <<0, 4097>>, <<2, 0>>,
     <<2, 1>>, <<65535, 61441>>, <<65536, 0>>}

\* lengths of the ranges made, in blocks
RangeBlocks == {0, 1, 3}

ElIdle ==
    [loc |-> None, range |-> None, taken |-> <<>>, advances |-> 0,
     dead |-> FALSE, op |-> [name |-> "idle"]]

\* what a call that returned r leaves of the caller
ElAfter(name, before, amount, r) ==
    [el EXCEPT !.dead = (r = Panicked),
               !.op = [name |-> name, before |-> before, amount |-> amount,
                       result |-> r]]

ElLocate(erasable_block_size, location) ==
    /\ ~el.dead /\ ~el.loc.some /\ ~el.range.some
    /\ \E r \in {erasable_location(erasable_block_size, location)} :
           el' = [ElAfter("erasable_location", erasable_block_size, location, r)
                     EXCEPT !.loc = IF r.ok THEN Some(r.val) ELSE None]
    /\ UNCHANGED <<vl, gc, efsVars, dirVars, ls, ua, efs, call, unitVars>>

ElAdvance(amount) ==
    /\ ~el.dead /\ el.loc.some /\ ~el.range.some
    /\ el.advances < MaxAdvances
    /\ \E r \in {advance(el.loc.val, amount)} :
           el' = [ElAfter("advance", el.loc.val, amount, r)
                     EXCEPT !.loc = IF r.ok THEN Some(r.val) ELSE el.loc,
                            !.advances = el.advances + 1]
    /\ UNCHANGED <<vl, gc, efsVars, dirVars, ls, ua, efs, call, unitVars>>

ElAdvanceAtLeast(amount) ==
    /\ ~el.dead /\ el.loc.some /\ ~el.range.some
    /\ el.advances < MaxAdvances
    /\ \E r \in {advance_at_least(el.loc.val, amount)} :
           el' = [ElAfter("advance_at_least", el.loc.val, amount, r)
                     EXCEPT !.loc = IF r.ok THEN Some(r.val) ELSE el.loc,
                            !.advances = el.advances + 1]
    /\ UNCHANGED <<vl, gc, efsVars, dirVars, ls, ua, efs, call, unitVars>>

\* ErasableRange::new(beginning, end) with end = beginning.advance(blocks
\* * erasable_block_size)
ElRange(blocks) ==
    /\ ~el.dead /\ el.loc.some /\ ~el.range.some
    /\ \E r \in {advance(el.loc.val,
                          <<el.loc.val.erasable_block_size[1] * blocks,
                            el.loc.val.erasable_block_size[2] * blocks>>)} :
           /\ r.ok
           /\ el' = [ElAfter("new", el.loc.val, blocks, r)
                        EXCEPT !.range = Some(ErasableRange(el.loc.val, r.val))]
    /\ UNCHANGED <<vl, gc, efsVars, dirVars, ls, ua, efs, call, unitVars>>

ElTake(size) ==
    /\ ~el.dead /\ el.range.some
    /\ Len(el.taken) < MaxTakes
    /\ \E r \in {take_at_least(el.range.val, size)} :
           el' = [ElAfter("take_at_least", el.range.val, size, r.result)
                     EXCEPT !.range = Some(r.self),
                            !.taken = IF r.result # Panicked /\ r.result.some
                                      THEN Append(el.taken, r.result.val)
                                      ELSE el.taken]
    /\ UNCHANGED <<vl, gc, efsVars, dirVars, ls, ua, efs, call, unitVars>>

---------------------------------------------------------------------------
(* The location_of_source harness: a directory location, an MMIO size, a   *)
(* source and an entry base location go in, the result comes out.          *)

\* 32-bit samples around the limits of an MMIO window of 0x0100_0000:
\* 0x00FF_FFFF, 0x0100_0000, 0xFEFF_FFFF, 0xFF00_0000
WindowSamples32 == {<<255, 65535>>, <<256, 0>>, <<65279, 65535>>, <<65280, 0>>}

SourceSamples ==
    VolSamples \cup {VOL(AddressModes[i], p) : i \in 1..4, p \in WindowSamples32}

\* directory locations: 0, 0x1000, 0xFFFF_F000
LocationSamples == {<<0, 0>>, <<0, 4096>>, <<65535, 61440>>}

\* amd_physical_mode_mmio_size: none, 0, 0x0100_0000, 0x8000_0000,
\* 0xFFFF_FFFF
MmioSizeSamples ==
    {None, Some(<<0, 0>>), Some(<<256, 0>>), Some(<<32768, 0>>),
     Some(<<65535, 65535>>)}

LsIdle == [pc |-> "idle"]

LsInit ==
    ls \in {[pc |-> "input", location |-> location, mmio |-> mmio,
              source |-> source, base |-> base] :
                location \in LocationSamples, mmio \in MmioSizeSamples,
                source \in SourceSamples, base \in {<<0, 0>>, <<65535, 65535>>}}

LsApply ==
    /\ ls.pc = "input"
    /\ ls' = [ls EXCEPT !.pc = "done"] @@
                 [result |-> location_of_source_at(ls.location, ls.mmio,
                                                   ls.source, ls.base)]
    /\ UNCHANGED <<vl, gc, efsVars, dirVars, el, ua, efs, call, unitVars>>

---------------------------------------------------------------------------
(* adapters.rs: Upper16MiBFlashAdapter.  Each of its four operations       *)
(* computes (offset + UPPER_HALF_OFFSET) % MODULUS in u32 and hands the    *)
(* access to the underlying flash.  The sum is a plain u32 addition: where *)
(* it overflows, a build with overflow checks panics and a build without   *)
(* them wraps.                                                             *)

\* 0x100_0000 and 0x200_0000, in units of 0x1_0000
UPPER_HALF_OFFSET == 256

MODULUS == 512

\* the outcomes of offset + UPPER_HALF_OFFSET in u32
upper_half_sum(offset) ==
    IF offset[1] + UPPER_HALF_OFFSET >= 65536
    THEN {[panic |-> TRUE],
          [panic |-> FALSE,
           val |-> <<(offset[1] + UPPER_HALF_OFFSET) % 65536, offset[2]>>]}
    ELSE {[panic |-> FALSE,
           val |-> <<offset[1] + UPPER_HALF_OFFSET, offset[2]>>]}

\* the offsets at which an access at offset reaches the underlying flash,
\* None standing for the panic
underlying_offset(offset) ==
    {IF sum.panic THEN None ELSE Some(<<sum.val[1] % MODULUS, sum.val[2]>>) :
        sum \in upper_half_sum(offset)}

AdapterOperations ==
    {"read_exact", "read_erasable_block", "erase_block",
     "erase_and_write_block"}

\* offsets in each half of the 32 MiB, at its ends, above it, and at the
\* top of the 32-bit range
OffsetHighs == {0, 128, 255, 256, 384, 511, 512, 640, 65279, 65280, 65535}

\* the low halves: block-aligned ones, which every operation takes, and
\* others, which only read_exact takes
AlignedLows == {0, 4096, 61440}

UnalignedLows == {1, 65535}

UaIdle == [op |-> "idle"]

UaAccess(op, offset) ==
    /\ ua.op = "idle"
    /\ op = "read_exact" \/ offset[2] \in AlignedLows
    /\ \E reached \in underlying_offset(offset) :
           ua' = [op |-> op, offset |-> offset, reached |-> reached]
    /\ UNCHANGED <<vl, gc, efsVars, dirVars, ls, el, efs, call, unitVars>>

---------------------------------------------------------------------------
(* efs.rs: the directories of an Efs.  The handle is                       *)
(* [efh_beginning, efh, amd_physical_mode_mmio_size]; the Efh carries the  *)
(* directory pointers as u32 <<hi, lo>>; locations on flash are numbers.   *)

\* 0xffff_ffff
AllOnes == <<65535, 65535>>

\* Efh::default() with efs_generations set: the fields up to
\* bhd_directory_table_milan (the SPI modes and eSPI configurations after
\* it play no part in the directory operations)
EfhWithPointers(efs_generations) ==
    [signature |-> EFH_SIGNATURE,
     psp_directory_table_location_naples |-> <<0, 0>>,
     psp_directory_table_location_zen |-> <<0, 0>>,
     bhd_directory_tables |-> <<<<0, 0>>, <<0, 0>>, <<0, 0>>>>,
     efs_generations |-> efs_generations,
     bhd_directory_table_milan |-> AllOnes]

\* the Efh as little-endian words: signature at 0x00, three firmware
\* locations (0), the PSP pointers at 0x10 and 0x14, the BHD pointers at
\* 0x18..0x20, efs_generations at 0x24, bhd_directory_table_milan at 0x28
EfhWords(efh) ==
    <<efh.signature[2], efh.signature[1], 0, 0, 0, 0, 0, 0,
      efh.psp_directory_table_location_naples[2],
      efh.psp_directory_table_location_naples[1],
      efh.psp_directory_table_location_zen[2],
      efh.psp_directory_table_location_zen[1],
      efh.bhd_directory_tables[1][2], efh.bhd_directory_tables[1][1],
      efh.bhd_directory_tables[2][2], efh.bhd_directory_tables[2][1],
      efh.bhd_directory_tables[3][2], efh.bhd_directory_tables[3][1],
      efh.efs_generations[2], efh.efs_generations[1],
      efh.bhd_directory_table_milan[2], efh.bhd_directory_table_milan[1]>>

\* Efs::EFH_SIZE
EFH_SIZE == 512

\* the shape psp_directory and psp_combo_directory share: the directory
\* at psp_directory_table_location_zen, else the one at the low 24 bits
\* of psp_directory_table_location_naples, with the cookie asked for
psp_directory_with(kind, cookie, storage, self) ==
    LET zen == self.efh.psp_directory_table_location_zen
        naples == self.efh.psp_directory_table_location_naples
        masked == IF naples = AllOnes THEN naples
                  ELSE <<naples[1] % 256, naples[2]>>
    IN  IF zen = AllOnes THEN Err("PspDirectoryHeaderNotFound")
        ELSE Bind(Directory_load_as(kind, storage, FromHalves(zen)),
               LAMBDA first :
                 IF first.ok /\ first.val.header.cookie = cookie THEN first
                 ELSE IF ~first.ok /\ first.err # "Marshal" THEN first
                 ELSE IF masked = AllOnes \/ masked = <<0, 0>>
                 THEN Err("PspDirectoryHeaderNotFound")
                 ELSE Bind(Directory_load_as(kind, storage, FromHalves(masked)),
                        LAMBDA second :
                          IF ~second.ok THEN second
                          ELSE IF second.val.header.cookie = cookie THEN second
                          ELSE Err("Marshal")))

\* Efs::psp_directory
psp_directory(storage, self) ==
    psp_directory_with("Psp", CookiePSP, storage, self)

\* Efs::psp_combo_directory
psp_combo_directory(storage, self) ==
    psp_directory_with("Combo", Cookie2PSP, storage, self)

\* the de_mmio of Efs::bhd_directories
de_mmio(v, amd_physical_mode_mmio_size) ==
    IF v = AllOnes \/ v = <<0, 0>> THEN AllOnes
    ELSE IF ~amd_physical_mode_mmio_size.some THEN AllOnes
    ELSE Bind(mmio_decode(v, amd_physical_mode_mmio_size.val),
           LAMBDA decoded :
             IF decoded.ok THEN decoded.val
             ELSE IF decoded.err = "DirectoryTypeMismatch"
             THEN IF ~ge32(v, amd_physical_mode_mmio_size.val) THEN v
                  ELSE AllOnes
             ELSE AllOnes)

\* the positions Efs::bhd_directories hands to its iterator
bhd_positions(self) ==
    <<self.efh.bhd_directory_table_milan,
      de_mmio(self.efh.bhd_directory_tables[3], self.amd_physical_mode_mmio_size),
      de_mmio(self.efh.bhd_directory_tables[2], self.amd_physical_mode_mmio_size),
      de_mmio(self.efh.bhd_directory_tables[1], self.amd_physical_mode_mmio_size)>>

\* EfhBhdsIterator, run by a for loop from position i on: the directories
\* it yields.  A position of 0xffff_ffff or 0 is passed over; a directory
\* that does not load ends the loop.
RECURSIVE EfhBhdsIterator(_, _, _)
EfhBhdsIterator(storage, positions, i) ==
    IF i > Len(positions) THEN <<>>
    ELSE IF positions[i] = AllOnes \/ positions[i] = <<0, 0>>
    THEN EfhBhdsIterator(storage, positions, i + 1)
    ELSE Bind(Directory_load_as("Bhd", storage, FromHalves(positions[i])),
           LAMBDA loaded :
             IF loaded.ok
             THEN <<loaded.val>> \o EfhBhdsIterator(storage, positions, i + 1)
             ELSE <<>>)

\* Efs::bhd_directories, iterated
bhd_directories(storage, self) ==
    EfhBhdsIterator(storage, bhd_positions(self), 1)

\* intersection_beginning < intersection_end
Intersects(range, reference) ==
    (IF range[1] > reference[1] THEN range[1] ELSE reference[1])
        < (IF range[2] < reference[2] THEN range[2] ELSE reference[2])

\* the checks ensure_no_overlap makes against one directory
overlaps_directory(range, directory) ==
    \/ Intersects(range, grow_to_erasable_block(directory_beginning(directory),
                                                directory_end(directory)))
    \/ Intersects(range, <<contents_beginning(directory),
                           contents_end(directory)>>)

\* Efs::ensure_no_overlap
ensure_no_overlap(storage, self, beginning, end) ==
    LET range == grow_to_erasable_block(beginning, end)
    IN  IF Intersects(range, grow_to_erasable_block(self.efh_beginning,
                                 self.efh_beginning + EFH_SIZE))
        THEN Err("Overlap")
        ELSE Bind(psp_directory(storage, self),
               LAMBDA psp :
                 IF psp.ok /\ overlaps_directory(range, psp.val)
                 THEN Err("Overlap")
                 ELSE IF ~psp.ok /\ psp.err # "PspDirectoryHeaderNotFound"
                 THEN psp
                 ELSE Bind(bhd_directories(storage, self),
                        LAMBDA bhds :
                          IF \E i \in 1..Len(bhds) :
                                 overlaps_directory(range, bhds[i])
                          THEN Err("Overlap")
                          ELSE Ok("unit")))

\* Efs::write_efh
write_efh(storage, self) ==
    erase_and_write_block(storage, self.efh_beginning, EfhWords(self.efh))

\* the match on default_entry_address_mode that opens create_bhd_directory
\* and create_psp_directory
address_mode_fits(self, default_entry_address_mode) ==
    CASE default_entry_address_mode = "PhysicalAddress" ->
            physical_address_mode(self.efh)
      [] default_entry_address_mode = "EfsRelativeOffset" ->
            ~physical_address_mode(self.efh)
      [] OTHER -> FALSE

\* what a creation leaves behind: the flash, the handle, and its result
Left(storage, self, result) ==
    [storage |-> storage, self |-> self, result |-> result]

\* the end of create_bhd_directory and create_psp_directory: the Efh with
\* its new pointer is written, then the directory is created
write_efh_and_create(kind, cookie, storage, self, beginning, end) ==
    Bind(Directory_create_as(kind, write_efh(storage, self), beginning, end,
                             cookie),
         LAMBDA created : Left(created.storage, self, created.result))

\* create_bhd_directory up to write_efh: the error it returns, or the
\* handle with the new pointer in its Efh
bhd_slot_set(storage, self, beginning, end, default_entry_address_mode) ==
    IF ~address_mode_fits(self, default_entry_address_mode)
    THEN Err("DirectoryTypeMismatch")
    ELSE Bind(ensure_no_overlap(storage, self, beginning, end),
           LAMBDA free :
             IF ~free.ok THEN free
             ELSE IF compatible_with_processor_generation(self.efh, "Milan")
             THEN Ok([self EXCEPT !.efh.bhd_directory_table_milan =
                                      ToHalves(beginning)])
             ELSE Ok([self EXCEPT !.efh.bhd_directory_tables[3] =
                                      ToHalves(beginning)]))

\* create_psp_directory up to write_efh, likewise
psp_slot_set(storage, self, beginning, end, default_entry_address_mode) ==
    IF ~address_mode_fits(self, default_entry_address_mode)
    THEN Err("DirectoryTypeMismatch")
    ELSE Bind(psp_directory(storage, self),
           LAMBDA existing :
             IF existing.ok THEN Err("Duplicate")
             ELSE IF existing.err # "PspDirectoryHeaderNotFound"
             THEN existing
             ELSE Bind(ensure_no_overlap(storage, self, beginning, end),
                    LAMBDA free :
                      IF ~free.ok THEN free
                      ELSE Ok([self EXCEPT
                                  !.efh.psp_directory_table_location_zen =
                                      ToHalves(beginning)])))

\* Efs::create_bhd_directory
create_bhd_directory(storage, self, beginning, end, default_entry_address_mode) ==
    Bind(bhd_slot_set(storage, self, beginning, end, default_entry_address_mode),
         LAMBDA set :
           IF ~set.ok THEN Left(storage, self, set)
           ELSE write_efh_and_create("Bhd", CookieBHD, storage, set.val,
                                     beginning, end))

\* Efs::create_psp_directory
create_psp_directory(storage, self, beginning, end, default_entry_address_mode) ==
    Bind(psp_slot_set(storage, self, beginning, end, default_entry_address_mode),
         LAMBDA set :
           IF ~set.ok THEN Left(storage, self, set)
           ELSE write_efh_and_create("Psp", CookiePSP, storage, set.val,
                                     beginning, end))

\* Efs::create_second_level_psp_directory
create_second_level_psp_directory(storage, self, beginning, end) ==
    Bind(ensure_no_overlap(storage, self, beginning, end),
      LAMBDA free :
        IF ~free.ok THEN Left(storage, self, free)
        ELSE Bind(psp_directory(storage, self),
               LAMBDA parent :
                 IF ~parent.ok THEN Left(storage, self, parent)
                 ELSE Bind(create_subdirectory(storage, parent.val,
                                               beginning, end),
                        LAMBDA sub :
                          Left(sub.storage, self, sub.result))))

---------------------------------------------------------------------------
(* The directory creations of an Efs as steps.  The caller holds an Efs    *)
(* over a flash of one block at 0 and the blocks from 0x2_0000 on, the Efh *)
(* being at 0x2_0000: one that Efs::create has just made (Rome, Milan,     *)
(* Genoa), or one that Efs::load found on an image written by another tool *)
(* (Naples, Turin, and Milan images that already point to a directory).    *)

\* the most creations attempted on one Efs
MaxCreates == 3

\* the last of EFH_POSITION
EfhBeginning == 131072

TreeBlocks == {0} \cup (32..(32 + NumBlocks))

\* the ranges asked for: 0x2_1000..0x2_5000, 0x2_5000..0x2_7000,
\* 0x2_6000..0x2_8000 (which intersects the one before),
\* 0x2_0000..0x2_2000 (which takes in the Efh), 0x2_8000..0x2_9000
CreateRanges ==
    {<<135168, 151552>>, <<151552, 159744>>, <<155648, 163840>>,
     <<131072, 139264>>, <<163840, 167936>>}

CreateModes == {"EfsRelativeOffset", "PhysicalAddress"}

\* the generation of the Efh and the amd_physical_mode_mmio_size the Efs
\* was opened with (16 MiB where there is one)
HandleKinds ==
    {<<"Rome", None>>, <<"Milan", None>>, <<"Genoa", None>>,
     <<"Turin", None>>, <<"Turin", Some(<<256, 0>>)>>,
     <<"Naples", Some(<<256, 0>>)>>}

\* a ComboDirectoryHeader with cookie 2PSP and no entries: 32 bytes
ComboHeaderWords ==
    HeaderWords([cookie |-> Cookie2PSP, checksum |-> <<0, 0>>,
                 total_entries |-> <<0, 0>>, additional_info |-> <<0, 0>>])
        \o <<0, 0, 0, 0, 0, 0, 0, 0>>

\* a PspDirectoryHeader as Directory::create leaves it at 0x2_1000
PspHeaderWords ==
    HeaderWords([PspDirectoryHeaderDefault EXCEPT
                    !.cookie = CookiePSP,
                    !.additional_info = AdditionalInfo(4, 3, 36, 1)])

\* the flash with the Efh of the handle on it
FlashOf(handle) ==
    erase_and_write_block([b \in TreeBlocks |-> <<>>], handle.efh_beginning,
                          EfhWords(handle.efh))

HandleOf(kind) ==
    [efh_beginning |-> EfhBeginning,
     efh |-> EfhWithPointers(efs_generations_for_processor_generation(kind[1])),
     amd_physical_mode_mmio_size |-> kind[2]]

\* a Milan image whose psp_directory_table_location_zen is 0x2_1000
PointingHandle ==
    [HandleOf(<<"Milan", None>>) EXCEPT
        !.efh.psp_directory_table_location_zen = ToHalves(135168)]

\* the images the caller starts from, each with its handle
TreeImages ==
    {[storage |-> FlashOf(HandleOf(kind)), self |-> HandleOf(kind)] :
        kind \in HandleKinds}
    \cup {[storage |-> erase_and_write_block(FlashOf(PointingHandle), 135168,
                                             words),
           self |-> PointingHandle] :
            words \in {PspHeaderWords, ComboHeaderWords}}

CallIdle == [op |-> "none", n |-> 0, made |-> <<>>]

\* the call that has returned r, with the state it was made in and the
\* directories the caller has created on this Efs, before it and in all
Called(op, range, mode, r) ==
    /\ flash' = r.storage
    /\ efs' = Some(r.self)
    /\ call' = [op |-> op, beginning |-> range[1], end |-> range[2],
                mode |-> mode, result |-> r.result, n |-> call.n + 1,
                storage_before |-> flash, efh_before |-> efs.val.efh,
                earlier |-> call.made,
                made |-> IF r.result.ok THEN Append(call.made, r.result.val)
                         ELSE call.made]
    /\ UNCHANGED <<vl, gc, efsVars, dir, added, dirOp, ls, el, ua, unitVars>>

TreeCreateBhd(range, mode) ==
    /\ efs.some
    /\ call.n < MaxCreates
    /\ \E r \in {create_bhd_directory(flash, efs.val, range[1], range[2], mode)} :
           Called("create_bhd_directory", range, mode, r)

TreeCreatePsp(range, mode) ==
    /\ efs.some
    /\ call.n < MaxCreates
    /\ \E r \in {create_psp_directory(flash, efs.val, range[1], range[2], mode)} :
           Called("create_psp_directory", range, mode, r)

TreeCreateSecondLevelPsp(range) ==
    /\ efs.some
    /\ call.n < MaxCreates
    /\ \E r \in {create_second_level_psp_directory(flash, efs.val,
                                                   range[1], range[2])} :
           Called("create_second_level_psp_directory", range, "none", r)

\* the caller asks for the first-level PSP directory both ways
TreeOpenPsp ==
    /\ efs.some
    /\ call.op # "psp_directory"
    /\ call' = [op |-> "psp_directory", n |-> call.n, made |-> call.made,
                psp |-> psp_directory(flash, efs.val),
                combo |-> psp_combo_directory(flash, efs.val)]
    /\ UNCHANGED <<vl, gc, efsVars, dirVars, ls, el, ua, efs, unitVars>>

---------------------------------------------------------------------------
(* Efs::bhd_directories on images written by another tool: BHD directories *)
(* at 0x2_1000 and 0x2_5000, nothing at 0x2_8000, and an Efh whose four    *)
(* BHD slots point to them in every combination.                           *)

\* what bhd_directory_table_milan holds: 0, 0xffff_ffff, 0x2_1000,
\* 0x2_5000, 0x2_8000
MilanSlotValues == {<<0, 0>>, AllOnes, <<2, 4096>>, <<2, 20480>>, <<2, 32768>>}

\* what a slot of bhd_directory_tables holds: 0, 0xffff_ffff, the offset
\* 0x2_1000, the MMIO address 0xff02_5000, the offset 0x2_8000
LegacySlotValues == {<<0, 0>>, AllOnes, <<2, 4096>>, <<65282, 20480>>, <<2, 32768>>}

\* the flash with the two directories, as Directory::create writes them
BhdFlash ==
    Directory_create_as("Bhd",
        Directory_create_as("Bhd", FlashOf(HandleOf(<<"Milan", None>>)),
                            135168, 151552, CookieBHD).storage,
        151552, 159744, CookieBHD).storage

BhdImages ==
    {[storage |-> BhdFlash,
      self |-> [HandleOf(<<"Milan", mmio>>) EXCEPT
                   !.efh.bhd_directory_table_milan = milan,
                   !.efh.bhd_directory_tables = <<slot0, slot1, slot2>>]] :
        mmio \in {None, Some(<<256, 0>>)}, milan \in MilanSlotValues,
        slot0 \in LegacySlotValues, slot1 \in LegacySlotValues,
        slot2 \in LegacySlotValues}

\* for directory in efs.bhd_directories(): the locations of the
\* directories the loop sees
TreeBhdDirectories ==
    /\ efs.some
    /\ call.op = "none"
    /\ \E ds \in {bhd_directories(flash, efs.val)} :
           call' = [op |-> "bhd_directories", n |-> call.n, made |-> call.made,
                    yielded |-> [k \in 1..Len(ds) |-> ds[k].location]]
    /\ UNCHANGED <<vl, gc, efsVars, dirVars, ls, el, ua, efs, unitVars>>

---------------------------------------------------------------------------
(* The creation of a first-level directory flash write by flash write: the *)
(* checks and the pointer set in memory, then write_efh, then the write of *)
(* Directory::create.  The flash is seen between the writes.               *)

\* the ranges asked for: those of CreateRanges and 0x2_1000..0x42_1000,
\* whose 4 MiB are more than the max_size of a directory holds
StepRanges == CreateRanges \cup {<<135168, 4329472>>}

\* the most first-level creations run on one Efs
MaxStepCreates == 2

StepEnter(kind, range, mode) ==
    /\ efs.some
    /\ call.op \in {"none", "returned"}
    /\ call.n < MaxStepCreates
    /\ \E set \in {IF kind = "Bhd"
                   THEN bhd_slot_set(flash, efs.val, range[1], range[2], mode)
                   ELSE psp_slot_set(flash, efs.val, range[1], range[2], mode)} :
           /\ efs' = IF set.ok THEN Some(set.val) ELSE efs
           /\ call' = [op |-> IF set.ok THEN "write_efh" ELSE "returned",
                       kind |-> kind, beginning |-> range[1],
                       end |-> range[2],
                       result |-> IF set.ok THEN Ok("unit") ELSE set,
                       n |-> call.n + 1, made |-> call.made]
    /\ UNCHANGED <<vl, gc, efsVars, dirVars, ls, el, ua, unitVars>>

StepWriteEfh ==
    /\ call.op = "write_efh"
    /\ flash' = write_efh(flash, efs.val)
    /\ call' = [call EXCEPT !.op = "create"]
    /\ UNCHANGED <<vl, gc, efsVars, dir, added, dirOp, ls, el, ua, efs, unitVars>>

StepCreate ==
    /\ call.op = "create"
    /\ \E r \in {Directory_create_as(call.kind, flash, call.beginning, call.end,
                     IF call.kind = "Bhd" THEN CookieBHD ELSE CookiePSP)} :
           /\ flash' = r.storage
           /\ call' = [call EXCEPT !.op = "returned", !.result = r.result]
    /\ UNCHANGED <<vl, gc, efsVars, dir, added, dirOp, ls, el, ua, efs, unitVars>>

---------------------------------------------------------------------------
(* amdfletcher32.rs: a checksummer fed slice by slice.                     *)

\* the words fed at most, and the update calls at most
MaxFed == 3

MaxUpdates == 3

\* words that carry into and out of the 0xffff reduction
FedWords == {0, 1, 32768, 65535}

\* the slices handed to one update call: empty, one word, two words
FedSlices ==
    {<<>>} \cup {<<w>> : w \in FedWords}
           \cup {<<v, w>> : v \in {0, 65535}, w \in {1, 65535}}

\* AmdFletcher32::new()
CkIdle == [fed |-> <<>>, updates |-> 0, sum |-> FletcherNew]

\* checksummer.update(slice)
CkUpdate(slice) ==
    /\ ck.updates < MaxUpdates
    /\ Len(ck.fed) + Len(slice) <= MaxFed
    /\ ck' = [fed |-> ck.fed \o slice, updates |-> ck.updates + 1,
              sum |-> FletcherUpdate(ck.sum, slice)]
    /\ UNCHANGED <<vl, gc, efsVars, dirVars, ls, el, ua, efs, call, bf, wr>>

---------------------------------------------------------------------------
(* ondisk.rs: the accessors of DirectoryAdditionalInfo for spi_block_size, *)
(* which work on the whole u32 of the bitfield, here <<hi, lo>>.           *)

\* set_spi_block_size_checked, old bits 10..13 kept and or-ed with the new
set_spi_block_size_checked_or(self, value) ==
    IF value > 0 /\ value <= 15
    THEN [result |-> Ok("unit"),
          self |-> <<self[1],
                     self[2] + (IF Bit(self[2], 10) = 0 THEN Bit(value, 0) * 1024 ELSE 0)
                             + (IF Bit(self[2], 11) = 0 THEN Bit(value, 1) * 2048 ELSE 0)
                             + (IF Bit(self[2], 12) = 0 THEN Bit(value, 2) * 4096 ELSE 0)
                             + (IF Bit(self[2], 13) = 0 THEN Bit(value, 3) * 8192 ELSE 0)>>]
    ELSE IF value = 16
    THEN [result |-> Ok("unit"), self |-> self]
    ELSE [result |-> Err("OutOfBounds"), self |-> self]

\* set_spi_block_size_checked: the result and the word afterwards; mask is
\* the word & !0b11_1100_0000_0000
set_spi_block_size_checked(self, value) ==
    LET mask == <<self[1], self[2] - ((self[2] \div 1024) % 16) * 1024>>
    IN  IF value > 0 /\ value <= 15
        THEN [result |-> Ok("unit"), self |-> <<mask[1], mask[2] + value * 1024>>]
        ELSE IF value = 16
        THEN [result |-> Ok("unit"), self |-> mask]
        ELSE [result |-> Err("OutOfBounds"), self |-> self]

\* spi_block_size_or_err: ((word >> 10) & 0xf), 0 standing for 64 kiB
spi_block_size_or_err(self) ==
    LET spi_block_size == (self[2] \div 1024) % 16
    IN  IF spi_block_size = 0 THEN Ok(16) ELSE Ok(spi_block_size)

\* spi_block_size: spi_block_size_or_err().unwrap()
spi_block_size(self) == spi_block_size_or_err(self).val

\* words with the field empty, full and mixed, among empty, full and mixed
\* neighbours
InfoWords ==
    {<<hi, lo>> : hi \in {0, 32769, 65535},
                  lo \in {0, 1024, 11213, 15360, 50175, 65535}}

\* block sizes in units: allowed, zero, just above 16, and wide ones
BlockSizeValues == (0..18) \cup {31, 32, 1040, 32784, 65535}

---------------------------------------------------------------------------
(* ondisk.rs: the filter of a ComboDirectoryEntry, kept as internal_key    *)
(* and internal_value, both u32 <<hi, lo>>.                                *)

PspId(value) == [variant |-> "PspId", value |-> value]

ChipFamilyId(value) == [variant |-> "ChipFamilyId", value |-> value]

\* ComboDirectoryEntry::filter
filter(self) ==
    IF self.internal_key = <<0, 0>> THEN Ok(PspId(self.internal_value))
    ELSE IF self.internal_key = <<0, 1>>
    THEN Ok(ChipFamilyId(self.internal_value))
    ELSE Err("DirectoryTypeMismatch")

\* ComboDirectoryEntry::set_filter: both arms set internal_key to 0
set_filter(self, value) ==
    IF value.variant = "PspId"
    THEN [self EXCEPT !.internal_key = <<0, 0>>, !.internal_value = value.value]
    ELSE [self EXCEPT !.internal_key = <<0, 0>>, !.internal_value = value.value]

\* ids at the ends of each half and mixed
FilterValues ==
    {<<0, 0>>, <<0, 1>>, <<1, 0>>, <<48128, 2565>>, <<65535, 65534>>,
     <<65535, 65535>>}

ComboDirectoryEntryFilters ==
    {PspId(v) : v \in FilterValues} \cup {ChipFamilyId(v) : v \in FilterValues}

\* entries as ComboDirectoryEntry::new() makes them and as read from flash
ComboEntries ==
    {[internal_key |-> key, internal_value |-> value] :
        key \in {<<0, 0>>, <<0, 1>>, <<0, 2>>, <<65535, 65535>>},
        value \in {<<0, 0>>, <<65535, 65535>>}}

BfIdle == [op |-> "idle"]

\* entry.set_filter(value) on the entry the caller holds
BfSetFilter(value) ==
    /\ bf.op = "new"
    /\ bf.of = "ComboDirectoryEntry"
    /\ bf' = [op |-> "set_filter", before |-> bf.self, value |-> value,
              self |-> set_filter(bf.self, value)]
    /\ UNCHANGED <<vl, gc, efsVars, dirVars, ls, el, ua, efs, call, ck, wr>>

\* info.set_spi_block_size_checked(value) on the word the caller holds
BfSetSpiBlockSize(value) ==
    /\ bf.op = "new"
    /\ bf.of = "DirectoryAdditionalInfo"
    /\ \E r \in {set_spi_block_size_checked(bf.self, value)} :
           bf' = [op |-> "set_spi_block_size_checked", before |-> bf.self,
                  value |-> value, result |-> r.result, self |-> r.self]
    /\ UNCHANGED <<vl, gc, efsVars, dirVars, ls, el, ua, efs, call, ck, wr>>

---------------------------------------------------------------------------
(* flash.rs: FlashWrite::erase_and_write_blocks over a flash whose block   *)
(* writes can fail.  The device is [storage, bad, torn]: the words of each *)
(* block it has, by location <<hi, lo>>; the blocks whose write fails; and *)
(* whether a failed write leaves its block erased.  A buffer is a sequence *)
(* of 16-bit words.                                                        *)

\* the blocks of the device: the first three and the last one of the
\* 32-bit range
WrBlocks == {<<0, 0>>, <<0, 4096>>, <<0, 8192>>, <<65535, 61440>>}

\* the device's erase_and_write_block: the device afterwards and the result
erase_and_write_block_on(device, location, buffer) ==
    IF location.location \notin WrBlocks
    THEN [device |-> device, result |-> Err("Io")]
    ELSE IF location.location \in device.bad
    THEN [device |-> IF device.torn
                     THEN [device EXCEPT !.storage[location.location] = <<>>]
                     ELSE device,
          result |-> Err("Io")]
    ELSE [device |-> [device EXCEPT !.storage[location.location] = Trim(buffer)],
          result |-> Ok("unit")]

\* buf.chunks(erasable_block_size).next()
first_chunk(buf) ==
    SubSeq(buf, 1, IF Len(buf) > ERASABLE_BLOCK_SIZE \div 2
                   THEN ERASABLE_BLOCK_SIZE \div 2 ELSE Len(buf))

\* erase_and_write_blocks with the location never advanced
RECURSIVE erase_and_write_blocks_in_place(_, _, _)
erase_and_write_blocks_in_place(device, location, buf) ==
    IF buf = <<>> THEN [device |-> device, result |-> Ok("unit"), log |-> <<>>]
    ELSE Bind(erase_and_write_block_on(device, location, first_chunk(buf)),
              LAMBDA w :
                LET attempt == <<[location |-> location.location,
                                  chunk |-> first_chunk(buf)]>>
                IN  IF ~w.result.ok
                    THEN [device |-> w.device, result |-> w.result, log |-> attempt]
                    ELSE Bind(erase_and_write_blocks_in_place(w.device, location,
                                  SubSeq(buf, Len(first_chunk(buf)) + 1, Len(buf))),
                              LAMBDA r : [r EXCEPT !.log = attempt \o r.log]))

\* FlashWrite::erase_and_write_blocks: the device afterwards, the result
\* (Ok, an error, or the panic of advance) and, in log, the calls of
\* erase_and_write_block it made, in order
RECURSIVE erase_and_write_blocks(_, _, _)
erase_and_write_blocks(device, location, buf) ==
    IF buf = <<>> THEN [device |-> device, result |-> Ok("unit"), log |-> <<>>]
    ELSE Bind(erase_and_write_block_on(device, location, first_chunk(buf)),
              LAMBDA w :
                LET attempt == <<[location |-> location.location,
                                  chunk |-> first_chunk(buf)]>>
                    advanced == advance(location, <<0, ERASABLE_BLOCK_SIZE>>)
                IN  IF ~w.result.ok
                    THEN [device |-> w.device, result |-> w.result, log |-> attempt]
                    ELSE IF 2 * Len(first_chunk(buf)) # ERASABLE_BLOCK_SIZE
                    THEN [device |-> w.device, result |-> Ok("unit"), log |-> attempt]
                    ELSE IF ~advanced.ok
                    THEN [device |-> w.device, result |-> advanced, log |-> attempt]
                    ELSE Bind(erase_and_write_blocks(w.device, advanced.val,
                                  SubSeq(buf, ERASABLE_BLOCK_SIZE \div 2 + 1, Len(buf))),
                              LAMBDA r : [r EXCEPT !.log = attempt \o r.log]))

\* the devices: erased, with no bad block or one, tearing or not
WrDevices ==
    {[storage |-> [b \in WrBlocks |-> <<>>], bad |-> bad, torn |-> torn] :
        bad \in {{}, {<<0, 0>>}, {<<0, 4096>>}, {<<0, 8192>>},
                 {<<65535, 61440>>}},
        torn \in BOOLEAN}

\* where a write begins: at each block of the device and right after the
\* third one
WrLocations == WrBlocks \cup {<<0, 12288>>}

\* the buffers by their number of words: none, one, a block less one, one,
\* two and three blocks, and one and two blocks and a bit; word k of a
\* buffer is k modulo 251, so that blocks differ
WrLengths == {0, 1, 2047, 2048, 2049, 4096, 4100, 6144}

WrBuffer(n) == SubSeq([k \in 1..6144 |-> k % 251], 1, n)

\* the location of chunk i of a write at location
ChunkLocation(location, i) == usize_add(location, ToHalves(i * ERASABLE_BLOCK_SIZE))

\* the number of chunks of a buffer of n words
ChunkCount(n) == (2 * n + ERASABLE_BLOCK_SIZE - 1) \div ERASABLE_BLOCK_SIZE

WrIdle == [op |-> "idle"]

\* storage.erase_and_write_blocks(location, buf) for a buffer that ends
\* within the 32-bit range
WrWriteBlocks(location, n) ==
    /\ wr.op = "new"
    /\ n = 0 \/ ChunkLocation(location, ChunkCount(n) - 1)[1] < 65536
    /\ \E r \in {erase_and_write_blocks(wr.device,
                        ErasableLocation(location, <<0, ERASABLE_BLOCK_SIZE>>),
                        WrBuffer(n))} :
           wr' = [op |-> "erase_and_write_blocks", location |-> location,
                  buf |-> WrBuffer(n), before |-> wr.device,
                  device |-> r.device, result |-> r.result, log |-> r.log]
    /\ UNCHANGED <<vl, gc, efsVars, dirVars, ls, el, ua, efs, call, ck, bf>>

---------------------------------------------------------------------------
(* Specifications.                                                         *)

\* the directory engine at rest
DirAtRest ==
    /\ flash = ErasedFlash
    /\ dir = None
    /\ added = <<>>
    /\ dirOp = DirIdle

\* the checksummer, the bitfield word and the block writer at rest
UnitsAtRest == ck = CkIdle /\ bf = BfIdle /\ wr = WrIdle

\* the harnesses of the single operations at rest
HarnessAtRest ==
    /\ ls = LsIdle /\ el = ElIdle /\ ua = UaIdle /\ efs = None /\ call = CallIdle
    /\ UnitsAtRest

\* the Efs engine at rest
EfsAtRest ==
    /\ efsFlash = BlankFlash
    /\ efsOp = EfsIdle
    /\ external = FALSE

InitVL ==
    /\ VlInit
    /\ gc = GcIdle
    /\ EfsAtRest
    /\ DirAtRest
    /\ HarnessAtRest

NextVL == VlEncode \/ VlDecode

SpecVL == InitVL /\ [][NextVL]_vars

InitRaw ==
    /\ vl \in {[pc |-> "raw", m |-> AddressModes[i], source |-> source] :
                   i \in 1..4, source \in RawSources}
    /\ gc = GcIdle
    /\ EfsAtRest
    /\ DirAtRest
    /\ HarnessAtRest

NextRaw == VlDecodeRaw

SpecRaw == InitRaw /\ [][NextRaw]_vars

InitGen ==
    /\ GcInit
    /\ vl = VlIdle
    /\ EfsAtRest
    /\ DirAtRest
    /\ HarnessAtRest

NextGen == GcApply

SpecGen == InitGen /\ [][NextGen]_vars

InitEfs ==
    /\ vl = VlIdle
    /\ gc = GcIdle
    /\ EfsAtRest
    /\ DirAtRest
    /\ HarnessAtRest

NextEfs ==
    \/ \E g \in RequestedGenerations : EfsProbe(g)
    \/ \E g \in RequestedGenerations : EfsLoad(g)
    \/ \E g \in ProcessorGeneration, location \in CreateLocations :
           EfsCreate(g, location)
    \/ EfsReturn
    \/ \E p \in EfhPositions, efh \in ImageEfhs : FlashProgram(p, efh)
    \/ \E p \in EfhPositions : FlashErase(p)

SpecEfs == InitEfs /\ [][NextEfs]_vars

InitDir ==
    /\ vl = VlIdle
    /\ gc = GcIdle
    /\ EfsAtRest
    /\ DirAtRest
    /\ HarnessAtRest

NextDir ==
    \/ DirCreate
    \/ \E value \in ValueSamples : DirAddValue(PspSoftFuseChain, value)
    \/ \E payload_position \in BlobPositions, size \in BlobSizes,
          contents \in BlobContents :
           DirAddBlob(payload_position, size, contents)
    \/ \E range \in SubdirectoryRanges : DirCreateSubdirectory(range)
    \/ DirLoad

SpecDir == InitDir /\ [][NextDir]_vars

NextAdd ==
    \/ DirCreate
    \/ \E given \in GivenEntries : DirAddEntry(given)

SpecAdd == InitDir /\ [][NextAdd]_vars

NextChosen ==
    \/ DirCreate
    \/ \E size \in ChosenSizes, contents \in BlobContents :
           DirAddBlob(None, size, contents)

SpecChosen == InitDir /\ [][NextChosen]_vars

InitImg ==
    /\ vl = VlIdle
    /\ gc = GcIdle
    /\ EfsAtRest
    /\ flash \in {erase_and_write_block(ErasedFlash, DirBeginning, HeaderWords(h)) :
                     h \in ImageHeaders}
    /\ dir = None
    /\ added = <<>>
    /\ dirOp = DirIdle
    /\ HarnessAtRest

NextImg ==
    \/ \E kind \in DirectoryKinds : ImgOpen(kind)
    \/ \E value \in ValueSamples : ImgAddValue(value)

SpecImg == InitImg /\ [][NextImg]_vars

InitSrc ==
    /\ vl = VlIdle
    /\ gc = GcIdle
    /\ EfsAtRest
    /\ DirAtRest
    /\ LsInit
    /\ el = ElIdle
    /\ ua = UaIdle
    /\ efs = None
    /\ call = CallIdle
    /\ UnitsAtRest

NextSrc == LsApply

SpecSrc == InitSrc /\ [][NextSrc]_vars

InitErase ==
    /\ vl = VlIdle
    /\ gc = GcIdle
    /\ EfsAtRest
    /\ DirAtRest
    /\ HarnessAtRest

NextErase ==
    \/ \E erasable_block_size \in BlockSizes, location \in RawLocations :
           ElLocate(erasable_block_size, location)
    \/ \E amount \in Amounts : ElAdvance(amount)
    \/ \E amount \in Amounts : ElAdvanceAtLeast(amount)
    \/ \E blocks \in RangeBlocks : ElRange(blocks)
    \/ \E size \in Amounts : ElTake(size)

SpecErase == InitErase /\ [][NextErase]_vars

InitAdapter ==
    /\ vl = VlIdle
    /\ gc = GcIdle
    /\ EfsAtRest
    /\ DirAtRest
    /\ HarnessAtRest

NextAdapter ==
    \E op \in AdapterOperations, high \in OffsetHighs,
       low \in AlignedLows \cup UnalignedLows :
        UaAccess(op, <<high, low>>)

SpecAdapter == InitAdapter /\ [][NextAdapter]_vars

InitTree ==
    /\ vl = VlIdle
    /\ gc = GcIdle
    /\ EfsAtRest
    /\ \E image \in TreeImages :
           /\ flash = image.storage
           /\ efs = Some(image.self)
    /\ dir = None
    /\ added = <<>>
    /\ dirOp = DirIdle
    /\ ls = LsIdle
    /\ el = ElIdle
    /\ ua = UaIdle
    /\ call = CallIdle
    /\ UnitsAtRest

NextTree ==
    \/ \E range \in CreateRanges, mode \in CreateModes :
           TreeCreateBhd(range, mode)
    \/ \E range \in CreateRanges, mode \in CreateModes :
           TreeCreatePsp(range, mode)
    \/ \E range \in CreateRanges : TreeCreateSecondLevelPsp(range)
    \/ TreeOpenPsp

SpecTree == InitTree /\ [][NextTree]_vars

InitSum ==
    /\ vl = VlIdle
    /\ gc = GcIdle
    /\ EfsAtRest
    /\ DirAtRest
    /\ HarnessAtRest

NextSum == \E slice \in FedSlices : CkUpdate(slice)

SpecSum == InitSum /\ [][NextSum]_vars

InitBits ==
    /\ vl = VlIdle
    /\ gc = GcIdle
    /\ EfsAtRest
    /\ DirAtRest
    /\ ls = LsIdle /\ el = ElIdle /\ ua = UaIdle /\ efs = None /\ call = CallIdle
    /\ ck = CkIdle /\ wr = WrIdle
    /\ \/ \E info \in InfoWords :
              bf = [op |-> "new", of |-> "DirectoryAdditionalInfo", self |-> info]
       \/ \E entry \in ComboEntries :
              bf = [op |-> "new", of |-> "ComboDirectoryEntry", self |-> entry]

NextBits ==
    \/ \E value \in BlockSizeValues : BfSetSpiBlockSize(value)
    \/ \E value \in ComboDirectoryEntryFilters : BfSetFilter(value)

SpecBits == InitBits /\ [][NextBits]_vars

InitWrite ==
    /\ vl = VlIdle
    /\ gc = GcIdle
    /\ EfsAtRest
    /\ DirAtRest
    /\ ls = LsIdle /\ el = ElIdle /\ ua = UaIdle /\ efs = None /\ call = CallIdle
    /\ ck = CkIdle /\ bf = BfIdle
    /\ \E device \in WrDevices : wr = [op |-> "new", device |-> device]

NextWrite == \E location \in WrLocations, n \in WrLengths : WrWriteBlocks(location, n)

SpecWrite == InitWrite /\ [][NextWrite]_vars

InitBhd ==
    /\ vl = VlIdle
    /\ gc = GcIdle
    /\ EfsAtRest
    /\ \E image \in BhdImages :
           /\ flash = image.storage
           /\ efs = Some(image.self)
    /\ dir = None
    /\ added = <<>>
    /\ dirOp = DirIdle
    /\ ls = LsIdle /\ el = ElIdle /\ ua = UaIdle /\ call = CallIdle
    /\ UnitsAtRest

NextBhd == TreeBhdDirectories

SpecBhd == InitBhd /\ [][NextBhd]_vars

NextSteps ==
    \/ \E kind \in {"Psp", "Bhd"}, range \in StepRanges, mode \in CreateModes :
           StepEnter(kind, range, mode)
    \/ StepWriteEfh
    \/ StepCreate

SpecSteps == InitTree /\ [][NextSteps]_vars

---------------------------------------------------------------------------
(* Properties of the address-mode codec (SpecVL).                          *)

\* C1: whenever encoding a location variant v under a directory address
\* mode m succeeds, decoding the 64-bit source under the same m gives back
\* the same variant with the same payload.
C1_RoundTrip ==
    vl.pc = "decoded" => vl.dec = Ok(vl.v)

\* an EfsRelativeOffset with all 32 payload bits set went through the weak
\* directory mode, where the entry's own mode bits decide, and came back
C1_Witness ==
    /\ vl.pc = "decoded"
    /\ vl.m = WEAK_ADDRESS_MODE
    /\ vl.v = VOL("EfsRelativeOffset", <<65535, 65535>>)
    /\ vl.raw = Ok(<<16384, 0, 65535, 65535>>)
    /\ vl.dec.ok

---------------------------------------------------------------------------
(* Properties of the generation flags (SpecGen).                           *)

---------------------------------------------------------------------------
(* Properties of the Efs probe and of Efs::create (SpecEfs).               *)

\* the first candidate, in probe order, whose Efh satisfies accepts
FirstCandidate(accepts(_)) ==
    LET i == FirstIndex({j \in 1..Len(EFH_POSITION) :
                            accepts(efsFlash[EFH_POSITION[j]])})
    IN  IF i = 0 THEN Err("EfsHeaderNotFound") ELSE Ok(EFH_POSITION[i])

\* C4: for every image and requested generation, efh_beginning returns the
\* first candidate in probe order whose Efh has the signature 0x55AA55AA and
\* is compatible with the generation, and EfsHeaderNotFound if there is none.
C4_FirstMatch ==
    (efsOp.op = "efh_beginning" /\ efsOp.generation # "None") =>
        efsOp.result =
            FirstCandidate(LAMBDA efh :
                signature_ok(efh)
                    /\ compatible_with_processor_generation(efh, efsOp.generation))

\* C5: Efs::create for generation g on blank flash, at a location where
\* creation is permitted, succeeds, and the load that follows finds the Efs
\* at that same location with the signature and the efs_generations seeded
\* for g.
C5_CreateThenLoad ==
    (/\ efsOp.op = "create"
     /\ efsOp.blank
     /\ efsOp.location \in EfhPositions) =>
        efsOp.result =
            Ok([efh_beginning |-> efsOp.location,
                efh |-> [signature |-> EFH_SIGNATURE,
                         efs_generations |->
                             efs_generations_for_processor_generation(
                                 efsOp.generation)]])

\* C7: requested Genoa or Turin, efh_beginning only ever returns 0x2_0000.
C7_OnlyLowCandidate ==
    (/\ efsOp.op = "efh_beginning"
     /\ efsOp.generation \in {"Genoa", "Turin"}
     /\ efsOp.result.ok) =>
        efsOp.result.val = 131072

\* C8: Efs::create succeeds only at the preferred location of the
\* generation; at any other location it returns EfsRangeCheck and writes
\* nothing.
C8_OnlyPreferred ==
    (/\ efsOp.op = "create"
     /\ efsOp.location # preferred_efh_location(efsOp.generation)) =>
        (efsOp.result = Err("EfsRangeCheck") /\ ~efsOp.wrote)

\* C9: when no candidate passes the first pass, efh_beginning returns the
\* first candidate with a valid signature and bit 0 set (physical-address
\* mode) if Naples or no generation is requested, and accepts nothing for
\* any other requested generation.
C9_Fallback ==
    (/\ efsOp.op = "efh_beginning"
     /\ \A p \in EfhPositions :
            ~first_pass_accepts(efsFlash[p], efsOp.generation)) =>
        efsOp.result =
            IF efsOp.generation \in {"Naples", "None"}
            THEN FirstCandidate(LAMBDA efh :
                     signature_ok(efh) /\ Bit(efh.efs_generations[2], 0) = 1)
            ELSE Err("EfsHeaderNotFound")

\* C10: after any sequence of Efs::create calls on one image, at most one
\* candidate holds an Efh with a valid signature and bit 0 clear.
C10_OneSecondGen ==
    ~external =>
        Cardinality({p \in EfhPositions :
                        /\ signature_ok(efsFlash[p])
                        /\ Bit(efsFlash[p].efs_generations[2], 0) = 0}) <= 1

---------------------------------------------------------------------------
(* Properties of the directory engine (SpecDir).                           *)

\* C2: after a sequence of directory operations that all succeeded, loading
\* the directory from flash at the same location succeeds, its header
\* (cookie, checksum, total_entries, additional_info) is the header of the
\* directory in memory, and its entries are the entries added, in order.
C2_LoadAfterOperations ==
    (dirOp.op = "load" /\ dirOp.clean) =>
        /\ dirOp.result.ok
        /\ dirOp.result.val.header = dir.val.header
        /\ entries(flash, dirOp.result.val) = added

\* C3: after a directory operation that succeeded (the creation with no
\* entries included), the checksum in the header on flash is the Fletcher-32
\* of the words on flash from total_entries through the last entry.
C3_ChecksumOnFlash ==
    (/\ dirOp.op \in {"create", "add_value_entry", "add_blob_entry",
                      "create_subdirectory"}
     /\ dirOp.clean) =>
        HeaderFromWords(ReadWords(flash, dir.val.location,
                                  MainHeaderSize)).checksum
          = FletcherValue(FletcherUpdate(FletcherNew,
                ReadWords(flash, dir.val.location + 8,
                    minimal_directory_headers_size(
                        FromHalves(dir.val.header.total_entries)) - 8)))

---------------------------------------------------------------------------
(* Properties of Directory::load on images (SpecImg).                      *)

\* C11: loading a directory whose header cookie is not one of the cookies
\* allowed for the directory type it is loaded as fails with
\* DirectoryTypeMismatch.
C11_CookieMismatch ==
    (/\ dirOp.op = "open"
     /\ HeaderOnFlash.cookie \notin ALLOWED_COOKIES(dirOp.kind)) =>
        dirOp.result = Err("DirectoryTypeMismatch")

\* C12: a directory never has more than 64 entries: loading a header that
\* declares more fails with DirectoryRangeCheck, no addition brings
\* total_entries above 64, and the addition that would fails with
\* DirectoryRangeCheck.
C12_AtMost64Entries ==
    /\ (/\ dirOp.op = "open"
        /\ HeaderOnFlash.cookie \in ALLOWED_COOKIES(dirOp.kind)
        /\ address_mode(HeaderOnFlash.additional_info)
              # "OtherDirectoryRelativeOffset"
        /\ FromHalves(HeaderOnFlash.total_entries) > 64) =>
           dirOp.result = Err("DirectoryRangeCheck")
    /\ dir.some => FromHalves(dir.val.header.total_entries) <= 64
    /\ (/\ dirOp.op = "add_value_entry"
        /\ FromHalves(dir.val.header.total_entries) = 64
        /\ ~dirOp.result.ok) =>
           dirOp.result = Err("DirectoryRangeCheck")

---------------------------------------------------------------------------
(* Properties of Directory::location_of_source (SpecSrc).                  *)

\* C13: location_of_source gives, for a Value, DirectoryTypeMismatch; for
\* EfsRelativeOffset(x), x; for DirectoryRelativeOffset(y), the directory
\* location plus y, or DirectoryPayloadRangeCheck when that sum overflows
\* 32 bits; for PhysicalAddress(y) with MMIO size M, y - (2^32 - M) when
\* y >= 2^32 - M, else y when y < M, else EntryTypeMismatch; and for
\* PhysicalAddress with no MMIO size, EntryTypeMismatch.
C13_LocationOfSource ==
    ls.pc = "done" =>
        LET \* the sum of two u32 as <<carry, hi, lo>>
            Plus32(u, v) ==
                <<(u[1] + v[1] + (u[2] + v[2]) \div 65536) \div 65536,
                  (u[1] + v[1] + (u[2] + v[2]) \div 65536) % 65536,
                  (u[2] + v[2]) % 65536>>
            Below32(u, v) == u[1] < v[1] \/ (u[1] = v[1] /\ u[2] < v[2])
            y == ls.source.payload
            sum == Plus32(ls.location, y)
            lifted == IF ls.mmio.some THEN Plus32(y, ls.mmio.val)
                      ELSE <<0, 0, 0>>
        IN  CASE ls.source.tag = "Value" ->
                    ls.result = Err("DirectoryTypeMismatch")
              [] ls.source.tag = "EfsRelativeOffset" -> ls.result = Ok(y)
              [] ls.source.tag = "DirectoryRelativeOffset" ->
                    ls.result = IF sum[1] = 1
                                THEN Err("DirectoryPayloadRangeCheck")
                                ELSE Ok(<<sum[2], sum[3]>>)
              [] ls.source.tag = "PhysicalAddress" ->
                    ls.result =
                        IF ~ls.mmio.some THEN Err("EntryTypeMismatch")
                        ELSE IF lifted[1] = 1
                        THEN Ok(<<lifted[2], lifted[3]>>)
                        ELSE IF Below32(y, ls.mmio.val) THEN Ok(y)
                        ELSE Err("EntryTypeMismatch")
              [] OTHER -> TRUE

\* a physical address inside the MMIO window has been resolved to its
\* offset, and a directory-relative offset has overflowed
C13_Witness ==
    /\ ls.pc = "done"
    /\ \/ /\ ls.source = VOL("PhysicalAddress", <<65280, 0>>)
          /\ ls.mmio = Some(<<256, 0>>)
          /\ ls.result = Ok(<<0, 0>>)
       \/ /\ ls.source.tag = "DirectoryRelativeOffset"
          /\ ls.result = Err("DirectoryPayloadRangeCheck")

---------------------------------------------------------------------------
(* Properties of ErasableLocation and ErasableRange (SpecErase).           *)

C15_Aligned ==
    LET Multiple(x, size) ==
            IF size[1] = 0 THEN x[2] % size[2] = 0
            ELSE x[2] = 0 /\ x[1] % size[1] = 0
        Aligned(l) == Multiple(l.location, l.erasable_block_size)
    IN  /\ el.loc.some => Aligned(el.loc.val)
        /\ el.range.some =>
               Aligned(el.range.val.beginning) /\ Aligned(el.range.val.end)
        /\ \A i \in 1..Len(el.taken) :
               Aligned(el.taken[i].beginning) /\ Aligned(el.taken[i].end)
        /\ (el.op.name \in {"advance", "advance_at_least"} /\ el.op.result.ok)
              => Aligned(el.op.result.val)
        /\ (/\ el.op.name = "erasable_location"
            /\ ~Multiple(el.op.amount, el.op.before)) =>
               el.op.result = Err("Alignment")
        /\ (/\ el.op.name = "advance"
            /\ ~Multiple(el.op.amount, el.op.before.erasable_block_size)) =>
               el.op.result = Err("Alignment")

\* advance has refused an amount that is not a block multiple, the
\* location held being one that erasable_location has accepted
C15_Witness ==
    /\ el.op.name = "advance"
    /\ el.op.amount = <<0, 4097>>
    /\ el.op.result = Err("Alignment")
    /\ el.loc = Some(el.op.before)

\* C16: take_at_least(n), when n rounded up to whole blocks fits the
\* range, returns the prefix of that length starting at the old beginning
\* and leaves the range from the prefix's end to the old end, the two
\* capacities adding up to the old one; when it does not fit it returns
\* None and leaves the range unchanged.  The prefixes handed out are
\* pairwise disjoint and disjoint from the range that remains.
C16_TakeAtLeast ==
    LET Disjoint(p, q) ==
            \/ usize_le(p.end.location, q.beginning.location)
            \/ usize_le(q.end.location, p.beginning.location)
    IN  /\ \A i, j \in 1..Len(el.taken) :
               i < j => Disjoint(el.taken[i], el.taken[j])
        /\ \A i \in 1..Len(el.taken) : Disjoint(el.taken[i], el.range.val)
        /\ el.op.name = "take_at_least" =>
               LET before == el.op.before
                   n == el.op.amount
                   size == before.beginning.erasable_block_size
                   low == and_mask(n, size)
                   rounded == IF low = <<0, 0>> THEN n
                              ELSE usize_add(usize_sub(n, low), size)
                   r == el.op.result
               IN  IF usize_le(rounded, capacity(before))
                   THEN /\ r # Panicked /\ r.some
                        /\ r.val.beginning = before.beginning
                        /\ capacity(r.val) = rounded
                        /\ el.range.val.beginning = r.val.end
                        /\ el.range.val.end = before.end
                        /\ usize_add(capacity(r.val), capacity(el.range.val))
                              = capacity(before)
                   ELSE r = None /\ el.range.val = before

---------------------------------------------------------------------------
(* Properties of Upper16MiBFlashAdapter (SpecAdapter).                     *)

\* C17: every read, block read, erase and erase-and-write at a 32-bit
\* offset o through the adapter reaches the underlying flash at
\* (o + 0x0100_0000) mod 0x0200_0000, the sum being taken without 32-bit
\* overflow.
C17_UpperHalf ==
    ua.op # "idle" =>
        ua.reached = Some(<<(ua.offset[1] + 256) % 512, ua.offset[2]>>)

---------------------------------------------------------------------------
(* Properties of the directory creations (SpecTree).                       *)

\* C18: a creation (create_bhd_directory, create_psp_directory,
\* create_second_level_psp_directory) over a range that, rounded out to
\* whole erase blocks, intersects the block of the Efh or the header area
\* or payload area of a directory created earlier returns Overlap and
\* leaves the flash and the Efh unchanged.  Stated for the calls that get
\* as far as the overlap check: the address mode fits the Efs, and
\* create_psp_directory finds no first-level PSP directory.
C18_Overlap ==
    LET range == grow_to_erasable_block(call.beginning, call.end)
        before == [efs.val EXCEPT !.efh = call.efh_before]
    IN  (/\ call.op \in {"create_bhd_directory", "create_psp_directory",
                         "create_second_level_psp_directory"}
         /\ call.op # "create_second_level_psp_directory"
                => address_mode_fits(before, call.mode)
         /\ call.op = "create_psp_directory"
                => ~psp_directory(call.storage_before, before).ok
         /\ \/ Intersects(range, grow_to_erasable_block(before.efh_beginning,
                                     before.efh_beginning + EFH_SIZE))
            \/ \E i \in 1..Len(call.earlier) :
                   overlaps_directory(range, call.earlier[i]))
        => /\ call.result = Err("Overlap")
           /\ flash = call.storage_before
           /\ efs.val.efh = call.efh_before

\* C19: creating a directory that exists fails with Duplicate and changes
\* neither the flash nor the Efs: create_psp_directory when a first-level
\* PSP directory loads, create_bhd_directory when the Efs has a first-level
\* BHD directory, the creation of a second-level directory when the parent
\* has a SecondLevelDirectory entry; and the first-level PSP directory
\* never has two SecondLevelDirectory entries.  Stated for calls whose
\* address mode fits the Efs and whose range is free.
C19_Duplicate ==
    LET before == [efs.val EXCEPT !.efh = call.efh_before]
        parent == psp_directory(call.storage_before, before)
        second_levels(storage, directory) ==
            {i \in 1..FromHalves(directory.header.total_entries) :
                entries(storage, directory)[i].attrs[2] % 256
                    = SecondLevelDirectory}
        exists ==
            CASE call.op = "create_psp_directory" ->
                    address_mode_fits(before, call.mode) /\ parent.ok
              [] call.op = "create_bhd_directory" ->
                    /\ address_mode_fits(before, call.mode)
                    /\ bhd_directories(call.storage_before, before) # <<>>
              [] call.op = "create_second_level_psp_directory" ->
                    /\ parent.ok
                    /\ second_levels(call.storage_before, parent.val) # {}
              [] OTHER -> FALSE
    IN  /\ (/\ exists
            /\ call.op # "create_psp_directory"
                   => ensure_no_overlap(call.storage_before, before,
                                        call.beginning, call.end).ok)
           => /\ call.result = Err("Duplicate")
              /\ flash = call.storage_before
              /\ efs.val.efh = call.efh_before
        /\ (efs.some /\ psp_directory(flash, efs.val).ok)
           => Cardinality(second_levels(flash,
                              psp_directory(flash, efs.val).val)) <= 1

\* C20: for every Efs and flash contents exactly one of psp_directory()
\* and psp_combo_directory() succeeds.
C20_ExactlyOne ==
    call.op = "psp_directory" => (call.psp.ok # call.combo.ok)

---------------------------------------------------------------------------
(* Properties of the creation step by step (SpecSteps).                    *)

\* C21: in every state between the flash writes of a first-level creation,
\* and in the state a failed step leaves, each directory pointer of the Efh
\* on flash that is neither 0 nor 0xffff_ffff refers to a location holding
\* a directory header with a valid cookie (the directory is written before
\* its pointer).
C21_PointerAfterDirectory ==
    LET words == ReadWords(flash, efs.val.efh_beginning, 44)
        pointers == {<<words[2 * k], words[2 * k - 1]>> :
                        k \in {5, 6, 7, 8, 9, 11}}
    IN  \A pointer \in pointers :
            pointer \notin {<<0, 0>>, AllOnes}
                => HeaderFromWords(ReadWords(flash, FromHalves(pointer),
                                             MainHeaderSize)).cookie
                       \in UNION {ALLOWED_COOKIES(kind) : kind \in DirectoryKinds}

---------------------------------------------------------------------------
(* Properties of the checksummer (SpecSum).                                *)

\* C22 as stated: the AMD Fletcher-32 value of the empty word stream, both
\* sums seeded to 0x0000ffff and the result formed as (b << 16) | a, is
\* 0x0000_ffff.
C22_AsStated ==
    ck.fed = <<>> => FletcherValue(ck.sum) = <<0, 65535>>

\* C22, amended: the AMD Fletcher-32 value of the empty word stream, both
\* sums seeded to 0x0000ffff and the result formed as (b << 16) | a, is
\* 0xffff_ffff, before any update and after any number of updates with an
\* empty slice.
C22_EmptyStream ==
    ck.fed = <<>> => FletcherValue(ck.sum) = <<65535, 65535>>

\* update has been called, with nothing but empty slices
C22_Witness ==
    ck.fed = <<>> /\ ck.updates = 2

---------------------------------------------------------------------------
(* Properties of the bitfield accessors (SpecBits).                        *)

\* C23: for every v in 1..=16, setting spi_block_size to v succeeds, stores
\* v in bits 10..13 of the 32-bit word (16 is stored as 0), leaves every
\* other bit of the word unchanged, and reading spi_block_size back returns
\* v; setting 0 or a value above 16 fails with an out-of-bounds error and
\* leaves the word unchanged.
C23_SpiBlockSize ==
    bf.op = "set_spi_block_size_checked" =>
        IF bf.value \in 1..16
        THEN /\ bf.result = Ok("unit")
             /\ \A k \in 0..3 : Bit(bf.self[2], 10 + k) = Bit(bf.value % 16, k)
             /\ \A k \in (0..9) \cup {14, 15} :
                    Bit(bf.self[2], k) = Bit(bf.before[2], k)
             /\ bf.self[1] = bf.before[1]
             /\ spi_block_size(bf.self) = bf.value
        ELSE /\ bf.result = Err("OutOfBounds")
             /\ bf.self = bf.before

\* 64 kiB has been stored over a full field among full neighbours
C23_Witness ==
    /\ bf.op = "set_spi_block_size_checked"
    /\ bf.value = 16
    /\ bf.before = <<65535, 65535>>
    /\ bf.self = <<65535, 50175>>

\* C30: for every ComboDirectoryEntryFilter f (PspId(v) or ChipFamilyId(v),
\* any 32-bit v), reading filter() after set_filter(f) returns f.
C30_FilterRoundTrip ==
    bf.op = "set_filter" => filter(bf.self) = Ok(bf.value)

---------------------------------------------------------------------------
(* Properties of add_entry by itself (SpecAdd).                            *)

\* C24: a successful entry addition increases total_entries by exactly one
\* (in memory and on flash), stores the new entry in the slot right after
\* the previously last entry so that it is enumerated last, and leaves
\* every previously stored entry and every byte of the erase block outside
\* the header and the new slot unchanged.
C24_AddEntryFrame ==
    (dirOp.op = "add_entry" /\ dirOp.result.ok) =>
        LET before == dirOp.before
            old == FromHalves(before.self.header.total_entries)
            slot == before.self.location + MainHeaderSize + ItemSize * old
            block == (before.self.location \div ERASABLE_BLOCK_SIZE) * ERASABLE_BLOCK_SIZE
            now == entries(flash, dir.val)
            new == EntryFromWords(ReadWords(flash, slot, ItemSize))
        IN  /\ dir.val.header.total_entries = ToHalves(old + 1)
            /\ HeaderFromWords(ReadWords(flash, before.self.location,
                                         MainHeaderSize)).total_entries
                   = ToHalves(old + 1)
            /\ Len(now) = old + 1
            /\ now[old + 1] = new
            /\ new.attrs = dirOp.given.entry.attrs
            /\ new.internal_size = dirOp.given.entry.internal_size
            /\ ~entry_size(new).some
                   => new.internal_source = dirOp.given.entry.internal_source
            /\ SubSeq(now, 1, old) = entries(before.storage, before.self)
            /\ \A k \in 0..(ERASABLE_BLOCK_SIZE \div 2 - 1) :
                   \/ block + 2 * k < before.self.location + MainHeaderSize
                   \/ (block + 2 * k >= slot /\ block + 2 * k < slot + ItemSize)
                   \/ WordAt(flash, block + 2 * k)
                          = WordAt(before.storage, block + 2 * k)

\* a second entry has been added after a first one
C24_Witness ==
    /\ dirOp.op = "add_entry"
    /\ dirOp.result.ok
    /\ dirOp.before.self.header.total_entries = <<0, 1>>
    /\ Len(entries(flash, dir.val)) = 2

---------------------------------------------------------------------------
(* Properties of erase_and_write_blocks (SpecWrite).                       *)

\* C25: erase_and_write_blocks(loc, buf) writes chunk i of buf (block-sized,
\* only the last may be short) at loc + i * block_size, in ascending order
\* of i; if writing some chunk fails, the error is returned at once, no
\* later chunk is written, and the chunks before it stay written.
C25_ChunksInOrder ==
    wr.op = "erase_and_write_blocks" =>
        LET words == ERASABLE_BLOCK_SIZE \div 2
            count == ChunkCount(Len(wr.buf))
            chunk(i) == SubSeq(wr.buf, i * words + 1,
                               IF (i + 1) * words < Len(wr.buf)
                               THEN (i + 1) * words ELSE Len(wr.buf))
            failing == {i \in 0..(count - 1) :
                           \/ ChunkLocation(wr.location, i) \notin WrBlocks
                           \/ ChunkLocation(wr.location, i) \in wr.before.bad}
            written == IF failing = {} THEN count
                       ELSE CHOOSE i \in failing : \A j \in failing : i <= j
            untouched == WrBlocks \ {ChunkLocation(wr.location, i) :
                                         i \in 0..(count - 1)}
        IN  /\ Len(wr.log) = IF failing = {} THEN count ELSE written + 1
            /\ \A i \in 0..(Len(wr.log) - 1) :
                   /\ wr.log[i + 1].location = ChunkLocation(wr.location, i)
                   /\ wr.log[i + 1].chunk = chunk(i)
                   /\ Len(chunk(i)) = words \/ i = count - 1
            /\ \A i \in 0..(written - 1) :
                   wr.device.storage[ChunkLocation(wr.location, i)] = Trim(chunk(i))
            /\ failing # {} => wr.result = Err("Io")
            /\ \A i \in (written + 1)..(count - 1) :
                   ChunkLocation(wr.location, i) \in WrBlocks =>
                       wr.device.storage[ChunkLocation(wr.location, i)]
                           = wr.before.storage[ChunkLocation(wr.location, i)]
            /\ \A b \in untouched : wr.device.storage[b] = wr.before.storage[b]

\* the third of three chunks has failed and the first two are written
C25_Witness ==
    /\ wr.op = "erase_and_write_blocks"
    /\ wr.location = <<0, 0>>
    /\ Len(wr.buf) = 4100
    /\ wr.result = Err("Io")
    /\ Len(wr.log) = 3
    /\ wr.device.storage[<<0, 0>>] # <<>>
    /\ wr.device.storage[<<0, 4096>>] # <<>>
    /\ wr.device.storage[<<0, 8192>>] = <<>>

---------------------------------------------------------------------------
(* Properties of the decoding of raw sources (SpecRaw).                    *)

\* C26: decoding a raw 64-bit source, under the directory address mode
\* DirectoryRelativeOffset (the weak mode) the variant is chosen by the top
\* 2 bits of source; under any other directory mode the variant is the
\* directory's mode and the top 2 bits are address bits, not discarded, so
\* a source whose value does not fit in 32 bits fails with
\* DirectoryPayloadRangeCheck instead of decoding to a truncated offset.
C26_DecodeRaw ==
    vl.pc = "decoded_raw" =>
        IF vl.m = WEAK_ADDRESS_MODE
        THEN vl.dec.ok =>
                 vl.dec.val.tag = AddressModeFromBits(vl.source[1] \div 16384)
        ELSE /\ vl.dec.ok => vl.dec.val.tag = vl.m
             /\ (vl.source[1] # 0 \/ vl.source[2] # 0)
                    => vl.dec = Err("DirectoryPayloadRangeCheck")

---------------------------------------------------------------------------
(* Properties of bhd_directories (SpecBhd).                                *)

\* C27: bhd_directories() yields, in the order Milan slot, then legacy
\* slots 2, 1, 0, one directory for every slot whose pointer is a valid
\* location, skipping exactly the slots holding 0 or 0xffff_ffff; a slot
\* that is skipped or whose directory fails to load does not hide the
\* directories of later slots.  (A legacy pointer is read as an MMIO
\* address where it decodes as one and as an offset otherwise; a pointer is
\* taken to yield a directory when a BHD directory loads at its location.)
C27_BhdDirectories ==
    call.op = "bhd_directories" =>
        LET efh == efs.val.efh
            mmio == efs.val.amd_physical_mode_mmio_size
            slots == <<efh.bhd_directory_table_milan, efh.bhd_directory_tables[3],
                       efh.bhd_directory_tables[2], efh.bhd_directory_tables[1]>>
            decoded(p) == IF mmio.some THEN mmio_decode(p, mmio.val)
                          ELSE Err("none")
            at(k) == IF k > 1 /\ decoded(slots[k]).ok
                     THEN decoded(slots[k]).val ELSE slots[k]
            loads(k) ==
                /\ slots[k] \notin {<<0, 0>>, AllOnes}
                /\ at(k)[1] < 16
                /\ FromHalves(at(k)) \div ERASABLE_BLOCK_SIZE \in TreeBlocks
                /\ Directory_load_as("Bhd", flash, FromHalves(at(k))).ok
            expected == SelectSeq(<<1, 2, 3, 4>>, LAMBDA k : loads(k))
        IN  call.yielded = [i \in 1..Len(expected) |-> FromHalves(at(expected[i]))]

---------------------------------------------------------------------------
(* Properties of the failing additions (SpecDir).                          *)

\* C28: if add_value_entry or add_blob_entry returns an error (no room in
\* the header area, zero-size blob, payload that does not fit the contents
\* area, flash write failure), the directory is unchanged: total_entries
\* in memory and on flash, the header checksum, and the sequence of
\* enumerated entries are the same as before the call.
C28_ErrorLeavesDirectory ==
    (dirOp.op \in {"add_value_entry", "add_blob_entry"} /\ ~dirOp.result.ok) =>
        LET before == dirOp.before
            on_flash(storage) ==
                HeaderFromWords(ReadWords(storage, before.self.location,
                                          MainHeaderSize))
        IN  /\ dir.val.header.total_entries = before.self.header.total_entries
            /\ dir.val.header.checksum = before.self.header.checksum
            /\ on_flash(flash).total_entries
                   = on_flash(before.storage).total_entries
            /\ on_flash(flash).checksum = on_flash(before.storage).checksum
            /\ entries(flash, dir.val) = entries(before.storage, before.self)

---------------------------------------------------------------------------
(* Properties of the payload positions the directory chooses (SpecChosen). *)

============================================================================
